---- MODULE Spec2Model ----
(***************************************************************************)
(* Model of OpenAIService.parse_itinerary_response                         *)
(* (src/services/openai_service.py) and of the extractors nested in it.    *)
(*                                                                         *)
(* A Python str is a sequence of symbols.  A symbol is one character when  *)
(* the regular expressions of the parser look at it (digits, brackets,     *)
(* dot, dash, colon, at-sign, blank, newline) and one whole word otherwise *)
(* ("Day", "Breakfast", "Cafe", ...).  A float is the exact decimal        *)
(* <<integer part, fraction digits without trailing zeros>>.  None is the  *)
(* one-symbol sequence <<"None">>.  A dict is a function on its keys.      *)
(***************************************************************************)
EXTENDS Integers, Sequences, FiniteSets, TLC

VARIABLES
    response_text,  \* argument of parse_itinerary_response
    pc,             \* position of the call in progress
    sections,       \* sections not yet visited by the for loop (line 404)
    parsed_data,    \* the dict built in the try block (line 397)
    result,         \* [kind |-> "none" | "returned" | "raised", value |-> ...]
    line_text,      \* one labeled meal line given to the meal extractor
    line_out,       \* [exc |-> a ValueError was raised, val |-> the dict]
    trip,           \* the Trip given to generate_itinerary (src/main.py)
    user_profile,   \* [found, row]: the UserProfile row of trip.user_id, if any
    prompt,         \* the prompt built by generate_itinerary
    trips,          \* rows of the table "trips" (src/main.py)
    itineraries,    \* rows of the table of Itinerary (src/main.py)
    user_profiles,  \* rows of the table "user_profiles"
    sequences,      \* next primary key of each table
    schema,         \* constraints of the Itinerary table, which src/ leaves open
    requests,       \* create_trip requests suspended at the generation call
    response,       \* the response last sent, with the request it answers
    calls,          \* concurrent invocations of parse_itinerary_response
    token,          \* the token given to auth_helpers.verify_token
    payload         \* [exc |-> HTTPException 401 raised, val |-> the payload]

vars == <<response_text, pc, sections, parsed_data, result, line_text, line_out,
          trip, user_profile, prompt,
          trips, itineraries, user_profiles, sequences, schema, requests,
          response, calls, token, payload>>

api_vars == <<trips, itineraries, user_profiles, sequences, schema, requests,
              response, calls, token, payload>>

prompt_vars == <<trip, user_profile, prompt>>

-----------------------------------------------------------------------------
(* Characters and the str methods the parser uses.                         *)

Digit == {"0", "1", "2", "3", "4", "5", "6", "7", "8", "9"}

Space == {" ", "\n"}

None == <<"None">>

Min(S) == CHOOSE x \in S : \A y \in S : x <= y

Max(S) == CHOOSE x \in S : \A y \in S : x >= y

\* s[i:] in Python, with i counted from 1
From(s, i) == SubSeq(s, i, Len(s))

\* the literal lit occurs in s at index i
HasLit(s, i, lit) ==
    /\ i >= 1
    /\ i + Len(lit) - 1 <= Len(s)
    /\ \A k \in 1..Len(lit) : s[i + k - 1] = lit[k]

\* str.find: first index >= from where lit occurs, 0 when there is none
Find(s, lit, from) ==
    LET I == {i \in from..(Len(s) - Len(lit) + 1) : HasLit(s, i, lit)}
    IN  IF I = {} THEN 0 ELSE Min(I)

\* lit in s
Contains(s, lit) == Find(s, lit, 1) > 0

startswith(s, prefix) == HasLit(s, 1, prefix)

RECURSIVE RunLen(_, _, _)
\* number of consecutive symbols of class C starting at index i
RunLen(s, i, C) ==
    IF i >= 1 /\ i <= Len(s) /\ s[i] \in C THEN 1 + RunLen(s, i + 1, C) ELSE 0

RECURSIVE RunLenBack(_, _, _)
\* number of consecutive symbols of class C ending at index i
RunLenBack(s, i, C) ==
    IF i >= 1 /\ i <= Len(s) /\ s[i] \in C THEN 1 + RunLenBack(s, i - 1, C) ELSE 0

strip(s) ==
    LET a == RunLen(s, 1, Space)
    IN  IF a = Len(s) THEN <<>>
        ELSE SubSeq(s, a + 1, Len(s) - RunLenBack(s, Len(s), Space))

RECURSIVE split(_, _)
\* str.split(sep)
split(s, sep) ==
    LET i == Find(s, sep, 1)
    IN  IF i = 0 THEN <<s>>
        ELSE <<SubSeq(s, 1, i - 1)>> \o split(From(s, i + Len(sep)), sep)

\* str.split(sep, 1)
split1(s, sep) ==
    LET i == Find(s, sep, 1)
    IN  IF i = 0 THEN <<s>>
        ELSE <<SubSeq(s, 1, i - 1), From(s, i + Len(sep))>>

DigitVal(c) ==
    CASE c = "0" -> 0 [] c = "1" -> 1 [] c = "2" -> 2 [] c = "3" -> 3
      [] c = "4" -> 4 [] c = "5" -> 5 [] c = "6" -> 6 [] c = "7" -> 7
      [] c = "8" -> 8 [] c = "9" -> 9

RECURSIVE int(_)
\* int() of a non-empty string of digits
int(s) ==
    IF s = <<>> THEN 0
    ELSE 10 * int(SubSeq(s, 1, Len(s) - 1)) + DigitVal(s[Len(s)])

DigitChar(d) ==
    CASE d = 0 -> "0" [] d = 1 -> "1" [] d = 2 -> "2" [] d = 3 -> "3"
      [] d = 4 -> "4" [] d = 5 -> "5" [] d = 6 -> "6" [] d = 7 -> "7"
      [] d = 8 -> "8" [] d = 9 -> "9"

RECURSIVE str(_)
\* str() of an int, as an f-string formats it
str(n) ==
    IF n < 0 THEN <<"-">> \o str(0 - n)
    ELSE IF n < 10 THEN <<DigitChar(n)>>
    ELSE str(n \div 10) \o <<DigitChar(n % 10)>>

\* digits d without their trailing zeros
NoTrailingZeros(d) ==
    LET I == {i \in 1..Len(d) : d[i] # "0"}
    IN  IF I = {} THEN <<>> ELSE SubSeq(d, 1, Max(I))

Zero == <<0, <<>>>>

\* float() of a string made of digits and dots: a ValueError unless the
\* string has at most one dot and at least one digit
float(s) ==
    LET dots == {i \in 1..Len(s) : s[i] = "."}
    IN  IF Cardinality(dots) > 1 \/ Len(s) - Cardinality(dots) = 0
        THEN [exc |-> TRUE, val |-> Zero]
        ELSE IF dots = {}
        THEN [exc |-> FALSE, val |-> <<int(s), <<>>>>]
        ELSE LET p == Min(dots)
             IN  [exc |-> FALSE,
                  val |-> <<int(SubSeq(s, 1, p - 1)),
                            NoTrailingZeros(From(s, p + 1))>>]

\* the Gregorian calendar of datetime.date
IsLeap(y) == (y % 4 = 0 /\ y % 100 # 0) \/ y % 400 = 0

DaysInMonth(y, m) ==
    IF m = 2 THEN (IF IsLeap(y) THEN 29 ELSE 28)
    ELSE IF m \in {4, 6, 9, 11} THEN 30 ELSE 31

\* the text x is dddd-dd-dd
HasDateShape(x) ==
    /\ Len(x) = 10
    /\ \A k \in {1, 2, 3, 4, 6, 7, 9, 10} : x[k] \in Digit
    /\ x[5] = "-" /\ x[8] = "-"

\* the text x names a day of the calendar as YYYY-MM-DD
IsCalendarDate(x) ==
    /\ HasDateShape(x)
    /\ LET y == int(SubSeq(x, 1, 4))
           m == int(SubSeq(x, 6, 7))
           d == int(SubSeq(x, 9, 10))
       IN  y >= 1 /\ m \in 1..12 /\ d \in 1..DaysInMonth(y, m)

-----------------------------------------------------------------------------
(* parse_meal (lines 281-296)                                              *)

\* length of the match of \(([\d.]+)\) that starts at index i, 0 if none
ParenRatingAt(s, i) ==
    IF i <= Len(s) /\ s[i] = "("
    THEN LET n == RunLen(s, i + 1, Digit \cup {"."})
         IN  IF n >= 1 /\ i + 1 + n <= Len(s) /\ s[i + 1 + n] = ")"
             THEN n + 2 ELSE 0
    ELSE 0

\* a run of digits and dots anywhere, parentheses or not
rating_group_bare(text) ==
    LET I == {i \in 1..Len(text) : text[i] \in Digit \cup {"."}}
    IN  IF I = {} THEN None
        ELSE SubSeq(text, Min(I), Min(I) + RunLen(text, Min(I), Digit \cup {"."}) - 1)

\* re.search(r'\(([\d.]+)\)', text) of line 284: group(1), None without a match
rating_group(text) ==
    LET I == {i \in 1..Len(text) : ParenRatingAt(text, i) > 0}
    IN  IF I = {} THEN None
        ELSE SubSeq(text, Min(I) + 1, Min(I) + ParenRatingAt(text, Min(I)) - 2)

\* the text left as it is, rating included
sub_rating_keep(s, i) == From(s, i)

RECURSIVE sub_rating(_, _)
\* re.sub(r'\s*\([\d.]+\)', '', text), scanning from index i
sub_rating(s, i) ==
    IF i > Len(s) THEN <<>>
    ELSE LET w == RunLen(s, i, Space)
             m == ParenRatingAt(s, i + w)
         IN  IF m > 0 THEN sub_rating(s, i + w + m)
             ELSE <<s[i]>> \o sub_rating(s, i + 1)

parse_meal(text) ==
    LET g      == rating_group(text)
        rating == IF g # None THEN float(g) ELSE [exc |-> FALSE, val |-> Zero]
        name   == strip(sub_rating(text, 1))
        parts  == split1(name, <<" ", "-", " ">>)
    IN  [exc |-> rating.exc,
         val |-> [spot        |-> strip(parts[1]),
                  rating      |-> rating.val,
                  description |-> IF Len(parts) > 1 THEN strip(parts[2]) ELSE <<>>]]

-----------------------------------------------------------------------------
(* parse_activity (lines 298-319)                                          *)

\* first index >= from of symbol c, 0 if none
IndexOf(s, c, from) == Find(s, <<c>>, from)

\* re.search(r'\((.*?)\)', text): <<index of "(", index of ")">> or <<0, 0>>
time_match(text) ==
    LET I == {i \in 1..Len(text) : text[i] = "(" /\ IndexOf(text, ")", i + 1) > 0}
    IN  IF I = {} THEN <<0, 0>> ELSE <<Min(I), IndexOf(text, ")", Min(I) + 1)>>

\* the text after "@" up to the next parenthesis or the end
location_match_to_paren(text) ==
    LET a == IndexOf(text, "@", 1)
    IN  IF a = 0 THEN None
        ELSE LET b == a + 1 + RunLen(text, a + 1, Space)
                 e == IndexOf(text, "(", b)
             IN  IF e = 0 THEN From(text, b) ELSE SubSeq(text, b, e - 1)

\* re.search(r'@\s*(.*?)(?=\.|$)', text): group 1, or None without a match
location_match(text) ==
    LET a == IndexOf(text, "@", 1)
    IN  IF a = 0 THEN None
        ELSE LET b == a + 1 + RunLen(text, a + 1, Space)
                 e == IndexOf(text, ".", b)
             IN  IF e = 0 THEN From(text, b) ELSE SubSeq(text, b, e - 1)

\* the match of \[(.*?)\]\((.*?)\) that starts at index i:
\* <<index of "](", index of the closing ")">>, or <<0, 0>>
LinkAt(s, i) ==
    IF i <= Len(s) /\ s[i] = "["
    THEN LET J == {j \in (i + 1)..Len(s) :
                     HasLit(s, j, <<"]", "(">>) /\ IndexOf(s, ")", j + 2) > 0}
         IN  IF J = {} THEN <<0, 0>>
             ELSE <<Min(J), IndexOf(s, ")", Min(J) + 2)>>
    ELSE <<0, 0>>

\* re.search(r'\[(.*?)\]\((.*?)\)', text): index of the match, 0 if none
url_match(text) ==
    LET I == {i \in 1..Len(text) : LinkAt(text, i)[1] > 0}
    IN  IF I = {} THEN 0 ELSE Min(I)

parse_activity(text) ==
    LET t == time_match(text)
        l == location_match(text)
        u == url_match(text)
    IN  [activity |-> IF u > 0 THEN SubSeq(text, u + 1, LinkAt(text, u)[1] - 1)
                      ELSE strip(split(text, <<"(">>)[1]),
         time     |-> IF t[1] > 0 THEN SubSeq(text, t[1] + 1, t[2] - 1) ELSE <<>>,
         location |-> IF l # None THEN strip(l) ELSE <<>>,
         url      |-> IF u > 0
                      THEN SubSeq(text, LinkAt(text, u)[1] + 2, LinkAt(text, u)[2] - 1)
                      ELSE None]

-----------------------------------------------------------------------------
(* parse_accommodation (lines 191-264)                                     *)

\* str.lower() on the words of the alphabet that carry capitals here
lower(c) ==
    CASE c = "ACCOMMODATION" -> "accommodation"
      [] c = "Accommodation" -> "accommodation"
      [] OTHER -> c

\* the dict of lines 219-229
new_hotel(name, website) ==
    [name |-> name, website |-> website, description |-> <<>>,
     location |-> <<>>, rating |-> Zero, star_rating |-> 0,
     unique_features |-> <<>>, price_range |-> <<>>, nightly_rate |-> <<>>]

\* a line that starts with a number and a period, or holds a link
is_hotel_start_or_link(line) ==
    \/ LET n == RunLen(line, 1, Digit)
       IN  n >= 1 /\ n + 1 <= Len(line) /\ line[n + 1] = "."
    \/ \E i \in 1..Len(line) : LinkAt(line, i)[1] > 0

\* re.match(r'^\d+\.', line)
is_hotel_start(line) ==
    LET n == RunLen(line, 1, Digit)
    IN  n >= 1 /\ n + 1 <= Len(line) /\ line[n + 1] = "."

\* lines 209-229: the entry a numbered line starts
hotel_of(line) ==
    LET hotel_name == strip(split1(line, <<".">>)[2])
        link       == LinkAt(hotel_name, 1)
    IN  IF link[1] > 0
        THEN new_hotel(SubSeq(hotel_name, 2, link[1] - 1),
                       SubSeq(hotel_name, link[1] + 2, link[2] - 1))
        ELSE new_hotel(hotel_name, None)

\* index of the first digit of s, 0 if none
first_digit(s) ==
    LET I == {i \in 1..Len(s) : s[i] \in Digit}
    IN  IF I = {} THEN 0 ELSE Min(I)

\* re.search(r'(\d+)', detail).group(1), for a detail that has a digit
star_digits(detail) ==
    LET i == first_digit(detail)
    IN  SubSeq(detail, i, i + RunLen(detail, i, Digit) - 1)

\* re.search(r'(\d+\.?\d*)', detail).group(1), for a detail that has a digit
user_rating_digits(detail) ==
    LET i == first_digit(detail)
        n == RunLen(detail, i, Digit)
        d == IF i + n <= Len(detail) /\ detail[i + n] = "." THEN 1 ELSE 0
        m == RunLen(detail, i + n + d, Digit)
    IN  SubSeq(detail, i, i + n + d + m - 1)

\* text after the first colon, stripped: detail.split(':', 1)[1].strip()
after_colon(detail) == strip(split1(detail, <<":">>)[2])

\* a word of a detail line in lower case
LowerWord(c) ==
    CASE c = "Location" -> "location"   [] c = "LOCATION" -> "location"
      [] c = "Official" -> "official"   [] c = "Star" -> "star"
      [] c = "User" -> "user"           [] c = "Rating" -> "rating"
      [] c = "Unique" -> "unique"       [] c = "Features" -> "features"
      [] c = "Price" -> "price"         [] c = "Range" -> "range"
      [] c = "Category" -> "category"   [] c = "Typical" -> "typical"
      [] c = "Nightly" -> "nightly"     [] c = "Rate" -> "rate"
      [] c = "Description" -> "description"
      [] OTHER -> c

\* the label occurs in the detail when letter case is not told apart
LowerContains(detail, label) ==
    Contains([k \in 1..Len(detail) |-> LowerWord(detail[k])], label)

\* one dash-line applied to the current hotel, labels in any letter case
hotel_detail_any_case(h, line) ==
    LET detail == strip(From(line, 2))
    IN  IF LowerContains(detail, <<"location", ":">>)
        THEN [h EXCEPT !.location = after_colon(detail)]
        ELSE IF LowerContains(detail, <<"official", " ", "star", " ", "rating", ":">>)
        THEN IF first_digit(detail) = 0 THEN h
             ELSE [h EXCEPT !.star_rating = int(star_digits(detail))]
        ELSE IF LowerContains(detail, <<"user", " ", "rating", ":">>)
        THEN IF first_digit(detail) = 0 THEN h
             ELSE [h EXCEPT !.rating = float(user_rating_digits(detail)).val]
        ELSE IF LowerContains(detail, <<"unique", " ", "features", ":">>)
        THEN [h EXCEPT !.unique_features = after_colon(detail)]
        ELSE IF LowerContains(detail, <<"price", " ", "range", " ", "category", ":">>)
        THEN [h EXCEPT !.price_range = after_colon(detail)]
        ELSE IF LowerContains(detail, <<"typical", " ", "nightly", " ", "rate", ":">>)
        THEN [h EXCEPT !.nightly_rate = after_colon(detail)]
        ELSE IF h.description # <<>>
        THEN [h EXCEPT !.description = h.description \o <<" ">> \o detail]
        ELSE [h EXCEPT !.description = detail]

\* lines 231-258: one dash-line applied to the current hotel
hotel_detail(h, line) ==
    LET detail == strip(From(line, 2))
    IN  IF Contains(detail, <<"Location", ":">>)
        THEN [h EXCEPT !.location = after_colon(detail)]
        ELSE IF Contains(detail, <<"Official", " ", "Star", " ", "Rating", ":">>)
        THEN IF first_digit(detail) = 0 THEN h
             ELSE [h EXCEPT !.star_rating = int(star_digits(detail))]
        ELSE IF Contains(detail, <<"User", " ", "Rating", ":">>)
        THEN IF first_digit(detail) = 0 THEN h
             ELSE [h EXCEPT !.rating = float(user_rating_digits(detail)).val]
        ELSE IF Contains(detail, <<"Unique", " ", "Features", ":">>)
        THEN [h EXCEPT !.unique_features = after_colon(detail)]
        ELSE IF Contains(detail, <<"Price", " ", "Range", " ", "Category", ":">>)
        THEN [h EXCEPT !.price_range = after_colon(detail)]
        ELSE IF Contains(detail, <<"Typical", " ", "Nightly", " ", "Rate", ":">>)
        THEN [h EXCEPT !.nightly_rate = after_colon(detail)]
        ELSE IF h.description # <<>>
        THEN [h EXCEPT !.description = h.description \o <<" ">> \o detail]
        ELSE [h EXCEPT !.description = detail]

RECURSIVE hotel_loop(_, _, _, _)
\* the for loop of lines 197-258 from line i on; cur.set says whether
\* current_hotel is a dict, and the tail is lines 261-264
hotel_loop(lines, i, hotels, cur) ==
    IF i > Len(lines)
    THEN IF cur.set THEN Append(hotels, cur.v) ELSE hotels
    ELSE LET line == strip(lines[i])
         IN  IF line = <<>> \/ (Len(line) = 1 /\ lower(line[1]) = "accommodation")
             THEN hotel_loop(lines, i + 1, hotels, cur)
             ELSE IF is_hotel_start(line)
             THEN hotel_loop(lines, i + 1,
                             IF cur.set THEN Append(hotels, cur.v) ELSE hotels,
                             [set |-> TRUE, v |-> hotel_of(line)])
             ELSE IF cur.set /\ line[1] = "-"
             THEN hotel_loop(lines, i + 1, hotels,
                             [set |-> TRUE, v |-> hotel_detail(cur.v, line)])
             ELSE hotel_loop(lines, i + 1, hotels, cur)

parse_accommodation(text) ==
    hotel_loop(split(text, <<"\n">>), 1, <<>>,
               [set |-> FALSE, v |-> new_hotel(<<>>, None)])

-----------------------------------------------------------------------------
(* parse_daily_activities (lines 266-360)                                  *)

MealSections == {"breakfast", "lunch", "dinner"}

ActivitySections == {"morning_activity", "afternoon_activity", "evening_activity"}

\* the literal each pattern of section_patterns starts with (lines 272-279)
section_label(section) ==
    CASE section = "breakfast"          -> <<"Breakfast", ":">>
      [] section = "morning_activity"   -> <<"Morning", " ", "Activity", ":">>
      [] section = "lunch"              -> <<"Lunch", ":">>
      [] section = "afternoon_activity" -> <<"Afternoon", " ", "Activity", ":">>
      [] section = "dinner"             -> <<"Dinner", ":">>
      [] section = "evening_activity"   -> <<"Evening", " ", "Activity", ":">>

\* pattern.search(day_text) for <label>\s*(.*?)(?=\n|$) with DOTALL:
\* group(1).strip(), or None without a match
section_content(day_text, section) ==
    LET label == section_label(section)
        i     == Find(day_text, label, 1)
    IN  IF i = 0 THEN None
        ELSE LET b == i + Len(label) + RunLen(day_text, i + Len(label), Space)
                 e == IndexOf(day_text, "\n", b)
             IN  strip(IF e = 0 THEN From(day_text, b)
                       ELSE SubSeq(day_text, b, e - 1))

\* day_pattern (line 271) matches at index i: Day (\d+) - (\d{4}-\d{2}-\d{2}):
DayHeaderAt(s, i) ==
    /\ HasLit(s, i, <<"Day", " ">>)
    /\ LET n == RunLen(s, i + 2, Digit)
           d == i + 2 + n + 3
       IN  /\ n >= 1
           /\ HasLit(s, i + 2 + n, <<" ", "-", " ">>)
           /\ d + 10 <= Len(s)
           /\ \A k \in {0, 1, 2, 3, 5, 6, 8, 9} : s[d + k] \in Digit
           /\ s[d + 4] = "-"
           /\ s[d + 7] = "-"
           /\ s[d + 10] = ":"

\* the first match whose date is a day of the calendar, 0 if none
day_match_calendar(day_text) ==
    LET I == {i \in 1..Len(day_text) :
                /\ DayHeaderAt(day_text, i)
                /\ LET d == i + 2 + RunLen(day_text, i + 2, Digit) + 3
                   IN  IsCalendarDate(SubSeq(day_text, d, d + 9))}
    IN  IF I = {} THEN 0 ELSE Min(I)

\* day_pattern.search(day_text): index of the match, 0 if none
day_match(day_text) ==
    LET I == {i \in 1..Len(day_text) : DayHeaderAt(day_text, i)}
    IN  IF I = {} THEN 0 ELSE Min(I)

\* group(1) of the match at index i
day_group1(s, i) == SubSeq(s, i + 2, i + 1 + RunLen(s, i + 2, Digit))

\* ten symbols taken one place too far to the right
day_group2_shifted(s, i) ==
    LET d == i + 2 + RunLen(s, i + 2, Digit) + 3
    IN  SubSeq(s, d + 1, d + 10)

\* group(2) of the match at index i
day_group2(s, i) ==
    LET d == i + 2 + RunLen(s, i + 2, Digit) + 3
    IN  SubSeq(s, d, d + 9)

empty_meal == [spot |-> <<>>, rating |-> Zero, description |-> <<>>]

empty_activity == [activity |-> <<>>, time |-> <<>>, location |-> <<>>, url |-> None]

\* the number read at the start of the chunk, wherever the header matched
day_number_at_start(day_text, i) == int(day_group1(day_text, 1))

\* int(day_match.group(1)) of line 336
day_number_of(day_text, i) == int(day_group1(day_text, i))

\* lines 347-354 for one section: the slot's value, after parse_meal or
\* parse_activity when the section's pattern matches
slot_of(day_text, section) ==
    LET content == section_content(day_text, section)
    IN  IF content = None
        THEN [exc |-> FALSE,
              val |-> IF section \in MealSections THEN empty_meal ELSE empty_activity]
        ELSE IF section \in MealSections THEN parse_meal(content)
        ELSE [exc |-> FALSE, val |-> parse_activity(content)]

\* lines 335-354: the entry of a chunk whose header matches at index i
day_entry(day_text, i) ==
    LET slot(section) == slot_of(day_text, section)
    IN  [exc |-> \E section \in MealSections : slot(section).exc,
         val |-> [day_number         |-> day_number_of(day_text, i),
                  date               |-> day_group2(day_text, i),
                  breakfast          |-> slot("breakfast").val,
                  morning_activity   |-> slot("morning_activity").val,
                  lunch              |-> slot("lunch").val,
                  afternoon_activity |-> slot("afternoon_activity").val,
                  dinner             |-> slot("dinner").val,
                  evening_activity   |-> slot("evening_activity").val]]

\* line 322: text.split('\nDay ')
day_chunks(text) == split(text, <<"\n", "Day", " ">>)

\* the chunk without the prefix the split removed
without_day_prefix(day_text) == day_text

\* lines 327-328
with_day_prefix(day_text) ==
    IF startswith(day_text, <<"Day", " ">>) THEN day_text
    ELSE <<"Day", " ">> \o day_text

RECURSIVE day_loop(_, _, _)
\* the for loop of lines 323-354 from chunk i on; every matched chunk
\* appends its entry (lines 332-333 and 357-358), a ValueError leaves the loop
day_loop(days, i, daily_schedule) ==
    IF i > Len(days) THEN [exc |-> FALSE, val |-> daily_schedule]
    ELSE IF strip(days[i]) = <<>> THEN day_loop(days, i + 1, daily_schedule)
    ELSE LET day_text == with_day_prefix(days[i])
             m        == day_match(day_text)
         IN  IF m = 0 THEN day_loop(days, i + 1, daily_schedule)
             ELSE LET e == day_entry(day_text, m)
                  IN  IF e.exc THEN [exc |-> TRUE, val |-> <<>>]
                      ELSE day_loop(days, i + 1, Append(daily_schedule, e.val))

parse_daily_activities(text) == day_loop(day_chunks(text), 1, <<>>)

-----------------------------------------------------------------------------
(* parse_travel_tips (lines 362-392)                                       *)

TipKeys == {"weather", "transportation", "cultural_notes", "seasonal_events"}

\* the dict of lines 364-369, also the travel_tips of lines 423-428
empty_tips == [k \in TipKeys |-> <<>>]

\* the field whose label starts the line (lines 377-388), "" when none does
tip_label(line) ==
    IF startswith(line, <<"Weather", ":">>) THEN "weather"
    ELSE IF startswith(line, <<"Transportation", ":">>) THEN "transportation"
    ELSE IF startswith(line, <<"Cultural", " ", "Notes", ":">>) THEN "cultural_notes"
    ELSE IF startswith(line, <<"Seasonal", " ", "Events", ":">>) THEN "seasonal_events"
    ELSE ""

RECURSIVE tips_loop(_, _, _, _)
\* the for loop of lines 372-390 from line i on; current_section "" is None
tips_loop(lines, i, tips, current_section) ==
    IF i > Len(lines) THEN tips
    ELSE LET line == strip(lines[i])
         IN  IF line = <<>> THEN tips_loop(lines, i + 1, tips, current_section)
             ELSE IF tip_label(line) # ""
             THEN tips_loop(lines, i + 1,
                            [tips EXCEPT ![tip_label(line)] = after_colon(line)],
                            tip_label(line))
             ELSE IF current_section # ""
             THEN tips_loop(lines, i + 1,
                            [tips EXCEPT ![current_section] = @ \o <<" ">> \o line],
                            current_section)
             ELSE tips_loop(lines, i + 1, tips, current_section)

parse_travel_tips(text) == tips_loop(split(text, <<"\n">>), 1, empty_tips, "")

-----------------------------------------------------------------------------
(* parse_itinerary_response, try block and handler (lines 394-429)         *)

SectionHeaders ==
    {<<"ACCOMMODATION", ":">>, <<"DAILY ITINERARY", ":">>, <<"TRAVEL TIPS", ":">>}

\* a newline followed by a section header: where re.split of line 396 cuts
IsSectionBreak(s, i) ==
    s[i] = "\n" /\ \E h \in SectionHeaders : HasLit(s, i + 1, h)

RECURSIVE split_sections(_)
\* re.split(r'\n(?=ACCOMMODATION:|DAILY ITINERARY:|TRAVEL TIPS:)', s)
split_sections(s) ==
    LET I == {i \in 1..Len(s) : IsSectionBreak(s, i)}
    IN  IF I = {} THEN <<s>>
        ELSE <<SubSeq(s, 1, Min(I) - 1)>> \o split_sections(From(s, Min(I) + 1))

\* the empty dict {} of line 400
no_tips == [k \in {} |-> <<>>]

\* parsed_data as initialised in lines 397-401
initial_parsed_data ==
    [accommodation |-> <<>>, daily_schedule |-> <<>>, travel_tips |-> no_tips]

\* the dict returned by the handler (lines 420-429)
default_record ==
    [accommodation |-> <<>>, daily_schedule |-> <<>>, travel_tips |-> empty_tips]

\* the exception handed on to the caller
except_reraise == [kind |-> "raised", value |-> default_record]

\* what the caller gets when the try block raised (lines 417-429)
except_result == [kind |-> "returned", value |-> default_record]

NoResult == [kind |-> "none", value |-> initial_parsed_data]

NoOut == [exc |-> FALSE, val |-> empty_meal]

\* the header a word spells when letter case and the two names of the
\* daily section are not told apart
HeaderWord(c) ==
    CASE c \in {"ACCOMMODATION", "Accommodation", "accommodation"} -> "ACCOMMODATION"
      [] c \in {"DAILY ITINERARY", "daily itinerary", "DAILY SCHEDULE"} -> "DAILY ITINERARY"
      [] c \in {"TRAVEL TIPS", "Travel Tips"} -> "TRAVEL TIPS"
      [] OTHER -> c

\* a section that starts with the header in any spelling, colon or not
section_is_any_spelling(section, header) ==
    strip(section) # <<>> /\ HeaderWord(strip(section)[1]) = header

\* section.strip().startswith(header) of lines 405-409
section_is(section, header) == startswith(strip(section), <<header, ":">>)

\* a date is <<year, month, day>>
NoTrip ==
    [destination |-> <<>>, start_date |-> <<1, 1, 1>>, end_date |-> <<1, 1, 1>>,
     activity_preferences |-> None, arrival_time |-> None,
     departure_time |-> None, dietary_preferences |-> None,
     additional_notes |-> None]

\* a UserProfile row with none of its optional fields set
NoProfileFields ==
    [traveler_type |-> None, activity_level |-> None, special_interests |-> None,
     dietary_preferences |-> None, accessibility_needs |-> None,
     preferred_languages |-> None, budget_preference |-> None]

\* the result of .first() when no row matches: None
NoProfile == [found |-> FALSE, row |-> NoProfileFields]

\* the state of generate_itinerary while it is not called
PromptUnused == trip = NoTrip /\ user_profile = NoProfile /\ prompt = <<>>

ApiUnused ==
    /\ trips = {} /\ itineraries = {} /\ user_profiles = {}
    /\ sequences = <<>> /\ schema = <<>> /\ requests = {} /\ response = <<>>
    /\ calls = <<>>
    /\ token = <<>> /\ payload = <<>>

-----------------------------------------------------------------------------
(* Response texts the parser is run on.                                    *)

MaxDays == 2

NL == <<"\n">>

Date1 == <<"2", "0", "2", "4", "-", "0", "6", "-", "0", "1">>

Date2 == <<"2", "0", "2", "4", "-", "0", "6", "-", "0", "2">>

Date3 == <<"2", "0", "2", "4", "-", "0", "6", "-", "0", "3">>

\* "Day <n> - <date>:"
Header(n, date) == <<"Day", " ">> \o n \o <<" ", "-", " ">> \o date \o <<":">>

DayBlocks ==
    { \* Day 1 - 2024-06-01: / Breakfast: Cafe Luna (4.7) - cozy spot
      Header(<<"1">>, Date1) \o NL
        \o <<"Breakfast", ":", " ", "Cafe", " ", "Luna", " ",
             "(", "4", ".", "7", ")", " ", "-", " ", "cozy", " ", "spot">>,
      \* a header without any labeled line
      Header(<<"2">>, Date2),
      \* a number out of order, a rating with a trailing zero
      Header(<<"5">>, Date3) \o NL
        \o <<"Lunch", ":", " ", "Cafe", " ", "(", "4", ".", "7", "0", ")">>,
      \* an indented header
      <<" ", " ">> \o Header(<<"3">>, Date3),
      \* a header that does not start its line
      <<"see", " ">> \o Header(<<"4">>, Date2),
      \* a meal whose parenthetical is not a number
      Header(<<"1">>, Date1) \o NL
        \o <<"Dinner", ":", " ", "Cafe", " ", "(", "1", ".", "2", ".", "3", ")">> }

RECURSIVE JoinLines(_)
\* the blocks, each on a new line
JoinLines(blocks) ==
    IF blocks = <<>> THEN <<>>
    ELSE NL \o blocks[1] \o JoinLines(Tail(blocks))

BlockSeqs == UNION {[1..n -> DayBlocks] : n \in 0..MaxDays}

DailyTexts ==
    {<<>>} \cup {<<"DAILY ITINERARY", ":">> \o JoinLines(b) : b \in BlockSeqs}

AccommodationTexts ==
    { <<>>,
      \* two numbered lines without any detail
      <<"ACCOMMODATION", ":">> \o NL \o <<"1", ".", " ", "Hotel">>
        \o NL \o <<"2", ".">>,
      \* a linked hotel with labeled and unlabeled details
      <<"ACCOMMODATION", ":">> \o NL
        \o <<"1", ".", " ", "[", "Inn", "]", "(", "http://x.test", ")">> \o NL
        \o <<"-", " ", "Location", ":", " ", "Center">> \o NL
        \o <<"-", " ", "User", " ", "Rating", ":", " ", "4", ".", "5">> \o NL
        \o <<"-", " ", "quiet">> }

TipsTexts ==
    { <<>>,
      <<"TRAVEL TIPS", ":">> \o NL \o <<"note">>,
      <<"TRAVEL TIPS", ":">> \o NL \o <<"Weather", ":", " ", "sunny">>
        \o NL \o <<"and", " ", "warm">> }

\* the non-empty parts, one per line
Assemble(a, d, t) ==
    LET parts == SelectSeq(<<a, d, t>>, LAMBDA x : x # <<>>)
    IN  IF parts = <<>> THEN <<>> ELSE Tail(JoinLines(parts))

Responses ==
    {Assemble(a, d, t) : a \in AccommodationTexts, d \in DailyTexts, t \in TipsTexts}

-----------------------------------------------------------------------------
(* The call of parse_itinerary_response as a state machine.                *)

Init ==
    /\ response_text \in Responses
    /\ pc = "start"
    /\ sections = <<>>
    /\ parsed_data = initial_parsed_data
    /\ result = NoResult
    /\ line_text = <<>>
    /\ line_out = NoOut
    /\ PromptUnused
    /\ ApiUnused

\* lines 396-401
SplitSections ==
    /\ pc = "start"
    /\ sections' = split_sections(response_text)
    /\ parsed_data' = initial_parsed_data
    /\ pc' = "loop"
    /\ UNCHANGED <<response_text, result, line_text, line_out>>
    /\ UNCHANGED prompt_vars
    /\ UNCHANGED api_vars

\* lines 405-406
AccommodationSection ==
    /\ pc = "loop" /\ sections # <<>>
    /\ section_is(Head(sections), "ACCOMMODATION")
    /\ parsed_data' =
         [parsed_data EXCEPT !.accommodation = parse_accommodation(Head(sections))]
    /\ sections' = Tail(sections)
    /\ UNCHANGED <<response_text, pc, result, line_text, line_out>>
    /\ UNCHANGED prompt_vars
    /\ UNCHANGED api_vars

\* lines 407-408; a ValueError of float() in parse_meal leaves the try block
DailySection ==
    /\ pc = "loop" /\ sections # <<>>
    /\ ~section_is(Head(sections), "ACCOMMODATION")
    /\ section_is(Head(sections), "DAILY ITINERARY")
    /\ LET r == parse_daily_activities(Head(sections))
       IN  IF r.exc
           THEN /\ pc' = "except"
                /\ UNCHANGED <<parsed_data, sections>>
           ELSE /\ parsed_data' = [parsed_data EXCEPT !.daily_schedule = r.val]
                /\ sections' = Tail(sections)
                /\ pc' = pc
    /\ UNCHANGED <<response_text, result, line_text, line_out>>
    /\ UNCHANGED prompt_vars
    /\ UNCHANGED api_vars

\* lines 409-410
TravelTipsSection ==
    /\ pc = "loop" /\ sections # <<>>
    /\ ~section_is(Head(sections), "ACCOMMODATION")
    /\ ~section_is(Head(sections), "DAILY ITINERARY")
    /\ section_is(Head(sections), "TRAVEL TIPS")
    /\ parsed_data' =
         [parsed_data EXCEPT !.travel_tips = parse_travel_tips(Head(sections))]
    /\ sections' = Tail(sections)
    /\ UNCHANGED <<response_text, pc, result, line_text, line_out>>
    /\ UNCHANGED prompt_vars
    /\ UNCHANGED api_vars

\* a section that starts with none of the three headers, taken as an error
OtherSectionRaises ==
    /\ pc = "loop" /\ sections # <<>>
    /\ \A h \in {"ACCOMMODATION", "DAILY ITINERARY", "TRAVEL TIPS"} :
         ~section_is(Head(sections), h)
    /\ pc' = "except"
    /\ UNCHANGED <<response_text, sections, parsed_data, result, line_text, line_out>>
    /\ UNCHANGED prompt_vars
    /\ UNCHANGED api_vars

\* a section that starts with none of the three headers (no branch of 405-410)
OtherSection ==
    /\ pc = "loop" /\ sections # <<>>
    /\ \A h \in {"ACCOMMODATION", "DAILY ITINERARY", "TRAVEL TIPS"} :
         ~section_is(Head(sections), h)
    /\ sections' = Tail(sections)
    /\ UNCHANGED <<response_text, pc, parsed_data, result, line_text, line_out>>
    /\ UNCHANGED prompt_vars
    /\ UNCHANGED api_vars

\* line 415
Return ==
    /\ pc = "loop" /\ sections = <<>>
    /\ result' = [kind |-> "returned", value |-> parsed_data]
    /\ pc' = "done"
    /\ UNCHANGED <<response_text, sections, parsed_data, line_text, line_out>>
    /\ UNCHANGED prompt_vars
    /\ UNCHANGED api_vars

\* lines 417-429
Except ==
    /\ pc = "except"
    /\ result' = except_result
    /\ pc' = "done"
    /\ UNCHANGED <<response_text, sections, parsed_data, line_text, line_out>>
    /\ UNCHANGED prompt_vars
    /\ UNCHANGED api_vars

Next ==
    \/ SplitSections
    \/ AccommodationSection
    \/ DailySection
    \/ TravelTipsSection
    \/ OtherSection
    \/ Return
    \/ Except

Spec == Init /\ [][Next]_vars

-----------------------------------------------------------------------------
(* The meal extractor run on one labeled line: the body of the loop of     *)
(* lines 347-354 for a meal section, pattern search and parse_meal.        *)

Link(name, url) == <<"[">> \o name \o <<"]", "(">> \o url \o <<")">>

Paren(x) == <<"(">> \o x \o <<")">>

MealLabels == {section_label(section) : section \in MealSections}

MealNames == {<<"Cafe", " ", "Luna">>}

MealUrls == {<<"http://x.test">>, <<"1", ".", "2">>}

MealDescs == {<<"cozy", " ", "spot">>}

Decimals == {<<"4", ".", "7">>, <<"4", ".", "7", "0">>}

MealSpots == MealNames \cup {Link(n, u) : n \in MealNames, u \in MealUrls}

RatingParts ==
    {<<>>, <<" ", "4", ".", "5">>}
      \cup {<<" ">> \o Paren(r) :
              r \in Decimals \cup {<<"5">>, <<"1", ".", "2", ".", "3">>, <<".">>, <<"open">>}}

DescParts == {<<>>} \cup {<<" ", "-", " ">> \o d : d \in MealDescs}

MealLine(label, spot, rating, desc) == label \o <<" ">> \o spot \o rating \o desc

MealLines ==
    {MealLine(l, n, r, d) :
       l \in MealLabels, n \in MealSpots, r \in RatingParts, d \in DescParts}

\* the section whose label starts the line
meal_section(line) ==
    CHOOSE section \in MealSections : startswith(line, section_label(section))

InitMeal ==
    /\ line_text \in MealLines
    /\ pc = "meal"
    /\ line_out = NoOut
    /\ response_text = <<>>
    /\ sections = <<>>
    /\ parsed_data = initial_parsed_data
    /\ result = NoResult
    /\ PromptUnused
    /\ ApiUnused

\* lines 348-352 on the one line
ParseMealLine ==
    /\ pc = "meal"
    /\ line_out' = slot_of(line_text, meal_section(line_text))
    /\ pc' = "meal_done"
    /\ UNCHANGED <<response_text, sections, parsed_data, result, line_text>>
    /\ UNCHANGED prompt_vars
    /\ UNCHANGED api_vars

NextMeal == ParseMealLine

SpecMeal == InitMeal /\ [][NextMeal]_vars

-----------------------------------------------------------------------------
(* The activity extractor run on one labeled line: the body of the loop of *)
(* lines 347-354 for an activity section, pattern search and               *)
(* parse_activity.                                                         *)

ActivityLabels == {section_label(section) : section \in ActivitySections}

ActivityNames == {<<"Walk">>, Link(<<"Walk">>, <<"http://x.test">>)}

TimeTokens == {<<"9", ":", "0", "0", " ", "AM">>}

TimeParts == {<<>>} \cup {<<" ">> \o Paren(t) : t \in TimeTokens}

Places ==
    { <<"Park">>,
      <<"St", ".", " ", "Mark's", " ", "Square">>,
      <<"Park", " ", "(", "near", " ", "gate", ")">>,
      <<"Park", ".", " ", "Free", " ", "entry">> }

LocationParts == {<<>>} \cup {<<" ", "@", " ">> \o p : p \in Places}

ActivityLine(label, name, time, location) ==
    label \o <<" ">> \o name \o time \o location

ActivityLines ==
    {ActivityLine(l, n, t, p) :
       l \in ActivityLabels, n \in ActivityNames, t \in TimeParts,
       p \in LocationParts}

\* the section whose label starts the line
activity_section(line) ==
    CHOOSE section \in ActivitySections : startswith(line, section_label(section))

InitActivity ==
    /\ line_text \in ActivityLines
    /\ pc = "activity"
    /\ line_out = NoOut
    /\ response_text = <<>>
    /\ sections = <<>>
    /\ parsed_data = initial_parsed_data
    /\ result = NoResult
    /\ PromptUnused
    /\ ApiUnused

\* lines 348-354 on the one line
ParseActivityLine ==
    /\ pc = "activity"
    /\ line_out' = slot_of(line_text, activity_section(line_text))
    /\ pc' = "activity_done"
    /\ UNCHANGED <<response_text, sections, parsed_data, result, line_text>>
    /\ UNCHANGED prompt_vars
    /\ UNCHANGED api_vars

NextActivity == ParseActivityLine

SpecActivity == InitActivity /\ [][NextActivity]_vars

-----------------------------------------------------------------------------
(* generate_itinerary of src/main.py up to the call of the service: the    *)
(* prompt of lines 97-123.                                                 *)

\* x or default, for an Optional[str]
or_else(x, default) == IF x = None \/ x = <<>> THEN default ELSE x

\* date.toordinal(): the days from 0001-01-01, counted from 1
days_before_year(y) ==
    (y - 1) * 365 + (y - 1) \div 4 - (y - 1) \div 100 + (y - 1) \div 400

RECURSIVE days_before_month(_, _)
days_before_month(y, m) ==
    IF m = 1 THEN 0 ELSE days_before_month(y, m - 1) + DaysInMonth(y, m - 1)

toordinal(date) ==
    days_before_year(date[1]) + days_before_month(date[1], date[2]) + date[3]

\* the stay counted without its last day
length_of_stay_exclusive(t) == toordinal(t.end_date) - toordinal(t.start_date)

\* (trip.end_date - trip.start_date).days + 1 of line 101
length_of_stay(t) == toordinal(t.end_date) - toordinal(t.start_date) + 1

Indent == "    "

\* the f-string of lines 97-109
trip_prompt(t) ==
    NL \o <<Indent, "Please create an itinerary for:">> \o NL
      \o <<Indent>> \o NL
      \o <<Indent, "Destination", ":", " ">> \o t.destination \o NL
      \o <<Indent, "Length of Stay", ":", " ">> \o str(length_of_stay(t))
      \o <<" ", "days">> \o NL
      \o <<Indent, "Travel Preferences", ":", " ">>
      \o or_else(t.activity_preferences, <<"None specified">>) \o NL
      \o <<Indent>> \o NL
      \o <<Indent, "Additional Details:">> \o NL
      \o <<Indent, "-", " ", "Arrival", ":", " ">>
      \o or_else(t.arrival_time, <<"Not specified">>) \o NL
      \o <<Indent, "-", " ", "Departure", ":", " ">>
      \o or_else(t.departure_time, <<"Not specified">>) \o NL
      \o <<Indent, "-", " ", "Dietary Preferences", ":", " ">>
      \o or_else(t.dietary_preferences, <<"None specified">>) \o NL
      \o <<Indent, "-", " ", "Additional Notes", ":", " ">>
      \o or_else(t.additional_notes, <<"None">>) \o NL
      \o <<Indent>>

\* the f-string of lines 113-123; budget is the text the build's Enum
\* formatting gives budget_preference
profile_prompt(profile, budget) ==
    LET row(label, value) ==
          <<Indent, Indent, "-", " ", label, ":", " ">> \o value \o NL
    IN  NL \o <<Indent, Indent>> \o NL
          \o <<Indent, Indent, "User Preferences:">> \o NL
          \o row("Traveler Type", or_else(profile.traveler_type, <<"Not specified">>))
          \o row("Activity Level", or_else(profile.activity_level, <<"Not specified">>))
          \o row("Special Interests",
                 or_else(profile.special_interests, <<"Not specified">>))
          \o row("Dietary Preferences",
                 or_else(profile.dietary_preferences, <<"Not specified">>))
          \o row("Accessibility Needs",
                 or_else(profile.accessibility_needs, <<"Not specified">>))
          \o row("Preferred Languages",
                 or_else(profile.preferred_languages, <<"Not specified">>))
          \o row("Budget Preference",
                 IF profile.budget_preference = None THEN <<"Not specified">>
                 ELSE budget)
          \o <<Indent, Indent>>

\* format() of a BudgetPreference member: its value, or class and member
\* name, by the version of Python
budget_formats(b) == {b, <<"BudgetPreference", ".">> \o b}

PromptDates ==
    { <<2023, 12, 31>>, <<2024, 1, 1>>, <<2024, 2, 28>>, <<2024, 3, 1>>,
      <<2024, 6, 1>>, <<2025, 3, 1>> }

Destinations == {<<"Paris">>, <<"St", ".", " ", "Ives">>}

Trips ==
    {[destination |-> dest, start_date |-> a, end_date |-> b,
      activity_preferences |-> pref, arrival_time |-> None,
      departure_time |-> None, dietary_preferences |-> <<>>,
      additional_notes |-> None] :
       dest \in Destinations, a \in PromptDates, b \in PromptDates,
       pref \in {None, <<"museums">>}}

Profiles ==
    { NoProfile,
      [found |-> TRUE, row |-> NoProfileFields],
      [found |-> TRUE,
       row |-> [NoProfileFields EXCEPT !.traveler_type = <<"solo">>,
                                       !.budget_preference = <<"COMFORT">>]] }

InitPrompt ==
    /\ trip \in Trips
    /\ user_profile \in Profiles
    /\ prompt = <<>>
    /\ pc = "prompt"
    /\ response_text = <<>>
    /\ sections = <<>>
    /\ parsed_data = initial_parsed_data
    /\ result = NoResult
    /\ line_text = <<>>
    /\ line_out = NoOut
    /\ ApiUnused

\* lines 97-123: the prompt, with the profile block when a profile was found
BuildPrompt ==
    /\ pc = "prompt"
    /\ IF ~user_profile.found
       THEN prompt' = trip_prompt(trip)
       ELSE \E budget \in budget_formats(or_else(user_profile.row.budget_preference, <<>>)) :
              prompt' = trip_prompt(trip) \o profile_prompt(user_profile.row, budget)
    /\ pc' = "prompt_built"
    /\ UNCHANGED <<trip, user_profile>>
    /\ UNCHANGED <<response_text, sections, parsed_data, result, line_text, line_out>>
    /\ UNCHANGED api_vars

NextPrompt == BuildPrompt

SpecPrompt == InitPrompt /\ [][NextPrompt]_vars

-----------------------------------------------------------------------------
(* What the claims speak of, read off the text itself.                     *)

\* the section of the response that the daily parser is given
daily_section(text) ==
    LET S == split_sections(text)
        I == {i \in 1..Len(S) : section_is(S[i], "DAILY ITINERARY")}
    IN  IF I = {} THEN <<>> ELSE S[Max(I)]

\* the section of the response that the accommodation parser is given
accommodation_section(text) ==
    LET S == split_sections(text)
        I == {i \in 1..Len(S) : section_is(S[i], "ACCOMMODATION")}
    IN  IF I = {} THEN <<>> ELSE S[Max(I)]

\* where a substring "Day <N> - <YYYY-MM-DD>:" starts
HeaderPositions(s) == {p \in 1..Len(s) : DayHeaderAt(s, p)}

\* where a newline is followed by "Day "
Boundaries(s) == {b \in 1..Len(s) : HasLit(s, b, <<"\n", "Day", " ">>)}

\* the last boundary at or before the header at p, 0 for the first chunk
ChunkOf(s, p) == Max({0} \cup {b \in Boundaries(s) : b + 1 <= p})

\* the headers that are the first of their chunk
FirstHeaders(s) ==
    {p \in HeaderPositions(s) :
       \A q \in HeaderPositions(s) : q < p => ChunkOf(s, q) # ChunkOf(s, p)}

\* the place of p among the positions P, counted from 1
Rank(P, p) == Cardinality({q \in P : q <= p})

\* the number and the date written in the header at p
HeaderNumber(s, p) == int(SubSeq(s, p + 2, Find(s, <<" ">>, p + 2) - 1))

HeaderDate(s, p) ==
    LET c == Find(s, <<":">>, p) IN SubSeq(s, c - 10, c - 1)

\* the parenthesised runs of digits and dots of s, as <<first, last>> indices
ParenNumbers(s) ==
    {ij \in (1..Len(s)) \X (1..Len(s)) :
       /\ ij[1] + 1 < ij[2]
       /\ s[ij[1]] = "(" /\ s[ij[2]] = ")"
       /\ \A k \in (ij[1] + 1)..(ij[2] - 1) : s[k] \in Digit \cup {"."}}

\* x is a decimal number: digits, with at most one dot
IsNumber(x) ==
    /\ \E k \in 1..Len(x) : x[k] \in Digit
    /\ Cardinality({k \in 1..Len(x) : x[k] = "."}) <= 1

\* a daily section whose headers each start a line and whose ratings are numbers
WellFormedDaily(s) ==
    /\ s # <<>>
    /\ \A p \in HeaderPositions(s) : p > 1 /\ s[p - 1] = "\n"
    /\ \A ij \in ParenNumbers(s) : IsNumber(SubSeq(s, ij[1] + 1, ij[2] - 1))

Returned == pc = "done" /\ result.kind = "returned"

\* the try block was left by an exception: the loop stopped with sections to go
Raised == pc = "done" /\ sections # <<>>

ReturnedSchedule == result.value.daily_schedule

-----------------------------------------------------------------------------
(* Claims                                                                  *)

\* C1: every call of parse_itinerary_response ends by returning a record,
\* never by an exception reaching the caller; when a section parser raised,
\* the record returned is the default record.
C1_NoExceptionEscapes ==
    pc = "done" =>
        /\ result.kind = "returned"
        /\ Raised => result.value = default_record

\* C1 witness: a call in which parse_meal raised and the default came back
C1_RaisedAndRecovered ==
    Raised /\ result.kind = "returned" /\ result.value = default_record

\* C2: in every returned result travel_tips has the four fields weather,
\* transportation, cultural_notes and seasonal_events, each a string, also
\* when the input has no TRAVEL TIPS section.
C2_TravelTipsComplete ==
    Returned => DOMAIN result.value.travel_tips = TipKeys

\* C3: the empty string is parsed, without raising, to exactly the default
\* record that the exception handler returns.
C3_EmptyStringGivesDefault ==
    pc = "done" /\ response_text = <<>> =>
        result.kind = "returned" /\ result.value = default_record

\* C4 as claimed: the i-th entry of daily_schedule has day_number i,
\* whatever number its header carries.
C4_DayNumberIsRunningCount ==
    Returned =>
        \A i \in 1..Len(ReturnedSchedule) : ReturnedSchedule[i].day_number = i

\* C4 as amended: the i-th entry of daily_schedule has the day_number N
\* written in the i-th header that is the first of its chunk, so numbers out
\* of order, repeated or with gaps come back as they were written.
C4_DayNumberIsHeaderNumber ==
    Returned /\ ~Raised =>
        LET s == daily_section(response_text)
        IN  \A p \in FirstHeaders(s) :
              /\ Rank(FirstHeaders(s), p) <= Len(ReturnedSchedule)
              /\ ReturnedSchedule[Rank(FirstHeaders(s), p)].day_number
                   = HeaderNumber(s, p)

\* C4 witness: "Day 5" then "Day 2" came back as 5 then 2
C4_OutOfOrderKept ==
    /\ Returned
    /\ Len(ReturnedSchedule) = 2
    /\ ReturnedSchedule[1].day_number = 5
    /\ ReturnedSchedule[2].day_number = 2

\* C5 as claimed: the length of daily_schedule is the number of substrings
\* of the daily section that match "Day <N> - <YYYY-MM-DD>:", indented and
\* mid-line headers included (stated for the calls that end without the
\* exception handler, whose empty schedule is the matter of C9).
C5_LengthIsHeaderCount ==
    Returned /\ ~Raised =>
        Len(ReturnedSchedule)
          = Cardinality(HeaderPositions(daily_section(response_text)))

\* C5 as amended: the length of daily_schedule is the number of chunks of
\* the daily section, cut at every newline followed by "Day ", that hold at
\* least one header; further headers of a chunk add no entry; and the
\* schedule is empty when a meal rating made the parser fall back.
C5_LengthIsChunkCount ==
    pc = "done" =>
        Len(ReturnedSchedule)
          = IF Raised THEN 0
            ELSE Cardinality(FirstHeaders(daily_section(response_text)))

\* C5 witness: more headers in the text than entries in the schedule
C5_HeaderWithoutEntry ==
    /\ Returned /\ ~Raised
    /\ Len(ReturnedSchedule) >= 1
    /\ Cardinality(HeaderPositions(daily_section(response_text)))
         > Len(ReturnedSchedule)

\* C6: a well-formed response whose daily section has k headers, each at the
\* start of its line, with dates d1..dk gives k entries, the i-th with date di.
C6_WellFormedDates ==
    pc = "done" /\ WellFormedDaily(daily_section(response_text)) =>
        LET s == daily_section(response_text)
        IN  /\ result.kind = "returned"
            /\ Len(ReturnedSchedule) = Cardinality(HeaderPositions(s))
            /\ \A p \in HeaderPositions(s) :
                 ReturnedSchedule[Rank(HeaderPositions(s), p)].date = HeaderDate(s, p)

\* C6 witness: two headers in a well-formed section, two dated entries
C6_TwoDatedEntries ==
    /\ pc = "done" /\ WellFormedDaily(daily_section(response_text))
    /\ Len(ReturnedSchedule) = 2
    /\ ReturnedSchedule[1].date = Date1
    /\ ReturnedSchedule[2].date = Date2

\* C7 as claimed: the line "<Label>: [NAME](URL) (R) - DESC" gives
\* spot NAME, url URL, rating R and description DESC.
C7_LinkedMealDecoded ==
    pc = "meal_done" =>
        \A l \in MealLabels, n \in MealNames, u \in MealUrls,
           r \in Decimals, d \in MealDescs :
            line_text = MealLine(l, Link(n, u), <<" ">> \o Paren(r),
                                 <<" ", "-", " ">> \o d)
              => /\ ~line_out.exc
                 /\ line_out.val.spot = n
                 /\ line_out.val.rating = float(r).val
                 /\ line_out.val.description = d
                 /\ "url" \in DOMAIN line_out.val
                 /\ line_out.val.url = u

\* C7 as amended: the line "<Label>: SPOT (R) - DESC", where SPOT holds no
\* parenthesised number, gives spot SPOT as written, rating R, description
\* DESC and no url field; a markdown link is not decoded, so the line
\* "Breakfast: [Cafe Luna](http://x.test) (4.7) - cozy spot" gives spot
\* "[Cafe Luna](http://x.test)", rating 4.7, description "cozy spot".
C7_MealDecoded ==
    pc = "meal_done" =>
        \A l \in MealLabels, n \in MealSpots, r \in Decimals, d \in MealDescs :
            /\ line_text = MealLine(l, n, <<" ">> \o Paren(r), <<" ", "-", " ">> \o d)
            /\ ParenNumbers(n) = {}
            => /\ ~line_out.exc
               /\ line_out.val = [spot |-> n, rating |-> float(r).val, description |-> d]
               /\ line_text = <<"Breakfast", ":", " ">>
                     \o Link(<<"Cafe", " ", "Luna">>, <<"http://x.test">>)
                     \o <<" ", "(", "4", ".", "7", ")", " ", "-", " ", "cozy", " ", "spot">>
                  => line_out.val.rating = <<4, <<"7">>>>

\* C7 witness: the spec's line, with the link kept in spot
C7_LinkKeptInSpot ==
    /\ pc = "meal_done"
    /\ line_text = <<"Breakfast", ":", " ">>
          \o Link(<<"Cafe", " ", "Luna">>, <<"http://x.test">>)
          \o <<" ", "(", "4", ".", "7", ")", " ", "-", " ", "cozy", " ", "spot">>
    /\ line_out.val.spot = Link(<<"Cafe", " ", "Luna">>, <<"http://x.test">>)
    /\ line_out.val.description = <<"cozy", " ", "spot">>

\* C8: a meal line without a parenthetical rating gives rating 0.0 and
\* raises nothing.
C8_NoRatingIsZero ==
    pc = "meal_done" /\ ParenNumbers(line_text) = {} =>
        ~line_out.exc /\ line_out.val.rating = Zero

\* C8 witness: a line with a number outside parentheses parsed to rating 0.0
C8_BareNumberIgnored ==
    /\ pc = "meal_done"
    /\ ParenNumbers(line_text) = {}
    /\ \E k \in 1..Len(line_text) : line_text[k] \in Digit
    /\ line_out.val.rating = Zero

\* C9: a meal parenthetical of digits and dots that is not a number, such as
\* "(1.2.3)" or "(.)", gives rating 0.0 for the entry instead of an error.
C9_UnparsableRatingIsZero ==
    /\ pc = "meal_done"
    /\ ParenNumbers(line_text) # {}
    /\ \A ij \in ParenNumbers(line_text) :
         ~IsNumber(SubSeq(line_text, ij[1] + 1, ij[2] - 1))
    => ~line_out.exc /\ line_out.val.rating = Zero

\* the numbered lines of the accommodation section, by index of the line
HotelStarts(s) ==
    {i \in 1..Len(split(s, NL)) : is_hotel_start(strip(split(s, NL)[i]))}

\* the header at p has no line of its own block after it
HeaderOnly(s, p) ==
    LET c == Find(s, <<":">>, p)
    IN  c = Len(s) \/ HasLit(s, c + 1, <<"\n", "Day", " ">>)

\* C10: every numbered accommodation line and every day header gives one
\* entry of the output list, and a block without labeled fields gives an
\* entry with the other fields at their defaults; no entry is dropped.
C10_BareEntriesKept ==
    pc = "done" =>
        LET a      == accommodation_section(response_text)
            d      == daily_section(response_text)
            hotels == result.value.accommodation
        IN  /\ Len(hotels) = Cardinality(HotelStarts(a))
            /\ \A i \in HotelStarts(a) :
                 (i = Len(split(a, NL)) \/ i + 1 \in HotelStarts(a)) =>
                    LET h == hotels[Rank(HotelStarts(a), i)]
                    IN  h = new_hotel(h.name, h.website)
            /\ Len(ReturnedSchedule) = Cardinality(FirstHeaders(d))
            /\ \A p \in FirstHeaders(d) :
                 HeaderOnly(d, p) =>
                    LET e == ReturnedSchedule[Rank(FirstHeaders(d), p)]
                    IN  /\ \A m \in MealSections : e[m] = empty_meal
                        /\ \A m \in ActivitySections : e[m] = empty_activity

-----------------------------------------------------------------------------
(* The whole call as one function of the text (lines 394-429): the loop of *)
(* lines 403-410 over the sections, and the handler.                       *)

RECURSIVE section_loop(_, _)
\* lines 403-410 from the first of the sections S on, with parsed_data data
section_loop(S, data) ==
    IF S = <<>> THEN [kind |-> "returned", value |-> data]
    ELSE IF section_is(Head(S), "ACCOMMODATION")
    THEN section_loop(Tail(S),
           [data EXCEPT !.accommodation = parse_accommodation(Head(S))])
    ELSE IF section_is(Head(S), "DAILY ITINERARY")
    THEN LET r == parse_daily_activities(Head(S))
         IN  IF r.exc THEN except_result
             ELSE section_loop(Tail(S), [data EXCEPT !.daily_schedule = r.val])
    ELSE IF section_is(Head(S), "TRAVEL TIPS")
    THEN section_loop(Tail(S),
           [data EXCEPT !.travel_tips = parse_travel_tips(Head(S))])
    ELSE section_loop(Tail(S), data)

parse_itinerary_response(text) ==
    section_loop(split_sections(text), initial_parsed_data)

-----------------------------------------------------------------------------
(* Further response texts: dates that are no dates, headers in other       *)
(* spellings, accommodation and travel-tips lines of every kind, JSON.     *)

DateForms ==
    { Date1,
      \* the shape of a date, but no day of the calendar
      <<"2", "0", "2", "4", "-", "1", "3", "-", "4", "5">>,
      <<"2", "0", "2", "3", "-", "0", "2", "-", "2", "9">>,
      \* not the shape of a date
      <<"2", "0", "2", "4", "-", "6", "-", "1">>,
      <<"June", " ", "1">>,
      <<>> }

\* "DAILY ITINERARY:" and one day block per date, each with a breakfast
DateResponse(dates) ==
    <<"DAILY ITINERARY", ":">>
      \o JoinLines([k \in 1..Len(dates) |->
                      Header(<<"1">>, dates[k]) \o NL
                        \o <<"Breakfast", ":", " ", "Cafe">>])

MaxDates == 2

DateResponses ==
    {DateResponse(dates) :
       dates \in UNION {[1..n -> DateForms] : n \in 1..MaxDates}}

\* a response whose meal rating makes float() raise
RaisingResponse ==
    <<"DAILY ITINERARY", ":">> \o NL \o Header(<<"1">>, Date1) \o NL
      \o <<"Dinner", ":", " ", "Cafe", " ", "(", "1", ".", "2", ".", "3", ")">>

AccommodationHeaders ==
    {<<"ACCOMMODATION", ":">>, <<"Accommodation">>, <<"Accommodation", ":">>}

DailyHeaders ==
    {<<"DAILY ITINERARY", ":">>, <<"daily itinerary">>,
     <<"DAILY SCHEDULE">>, <<"DAILY SCHEDULE", ":">>}

TipsHeaders ==
    {<<"TRAVEL TIPS", ":">>, <<"Travel Tips">>, <<"Travel Tips", ":">>}

\* one response of three sections, written under the headers a, d and t
HeaderResponse(a, d, t) ==
    a \o NL \o <<"1", ".", " ", "Hotel">> \o NL
      \o d \o NL \o Header(<<"1">>, Date1) \o NL
      \o <<"Breakfast", ":", " ", "Cafe">> \o NL
      \o t \o NL \o <<"Weather", ":", " ", "sunny">>

HeaderResponses ==
    {HeaderResponse(a, d, t) :
       a \in AccommodationHeaders, d \in DailyHeaders, t \in TipsHeaders}

HotelLines ==
    { <<"1", ".", " ", "Hotel">>,
      <<"2", ".", " ">> \o Link(<<"Inn">>, <<"http://x.test">>),
      \* a hotel written as a link, without a number
      Link(<<"Lodge">>, <<"http://x.test">>) \o <<" ", "-", " ", "rated", " ", "4", ".", "5">>,
      <<"-", " ", "quiet">> }

MaxHotelLines == 3

HotelResponses ==
    {<<"ACCOMMODATION", ":">> \o JoinLines(l) :
       l \in UNION {[1..n -> HotelLines] : n \in 1..MaxHotelLines}}

\* the text of dash-lines, after the dash
DetailTexts ==
    { <<"Location", ":", " ", "Center">>,
      <<"location", ":", " ", "Harbour">>,
      <<"Rating", ":", " ", "4", ".", "5">>,
      <<"User", " ", "Rating", ":", " ", "4", ".", "6", "/", "5">>,
      <<"User", " ", "Rating", ":", " ", "unknown">>,
      <<"Official", " ", "Star", " ", "Rating", ":", " ", "3", " ", "stars">>,
      <<"Unique", " ", "Features", ":", " ", "pool">>,
      <<"Price", " ", "Range", " ", "Category", ":", " ", "COMFORT">>,
      <<"Nightly", " ", "Rate", ":", " ", "$90">>,
      <<"Typical", " ", "Nightly", " ", "Rate", ":", " ", "$100">>,
      <<"Description", ":", " ", "nice">>,
      <<"quiet">> }

MaxDetails == 2

\* one numbered hotel and its dash-lines
DetailResponses ==
    {<<"ACCOMMODATION", ":">> \o NL \o <<"1", ".", " ", "Hotel">>
       \o JoinLines([k \in 1..Len(d) |-> <<"-", " ">> \o d[k]]) :
       d \in UNION {[1..n -> DetailTexts] : n \in 1..MaxDetails}}

TipLines ==
    { <<"Weather", ":", " ", "sunny">>,
      <<"Transportation", ":", " ", "metro">>,
      <<"Cultural", " ", "Notes", ":", " ", "bow">>,
      <<"Cultural", " ", "Etiquette", ":", " ", "be", " ", "polite">>,
      <<"Seasonal", " ", "Events", ":", " ", "fair">>,
      <<"and", " ", "more">> }

MaxTipLines == 3

TipsResponses ==
    {<<"TRAVEL TIPS", ":">> \o JoinLines(l) :
       l \in UNION {[1..n -> TipLines] : n \in 1..MaxTipLines}}

\* JSON documents of the schema of the strict-JSON dialect, and their text

RECURSIVE JoinWith(_, _)
JoinWith(texts, sep) ==
    IF texts = <<>> THEN <<>>
    ELSE IF Len(texts) = 1 THEN texts[1]
    ELSE texts[1] \o sep \o JoinWith(Tail(texts), sep)

JsonString(x) == <<"\"">> \o x \o <<"\"">>

JsonNumber(r) == str(r[1]) \o <<".">> \o (IF r[2] = <<>> THEN <<"0">> ELSE r[2])

JsonList(items) == <<"[">> \o JoinWith(items, <<",", " ">>) \o <<"]">>

\* the members of rec in the order of keys, each written by member
JsonObject(rec, keys, member(_)) ==
    LET present == SelectSeq(keys, LAMBDA k : k \in DOMAIN rec)
    IN  <<"{">>
          \o JoinWith([i \in 1..Len(present) |->
                         JsonString(<<present[i]>>) \o <<":", " ">> \o member(present[i])],
                      <<",", " ">>)
          \o <<"}">>

MealKeys == <<"spot", "rating", "description", "url">>

ActivityKeys == <<"activity", "description", "url">>

HotelKeys ==
    <<"name", "description", "location", "rating", "unique_features",
      "nightly_rate", "url">>

DayKeys ==
    <<"day_number", "date", "breakfast", "morning_activity", "lunch",
      "afternoon_activity", "dinner", "evening_activity">>

JsonTipKeys == <<"weather", "transportation", "cultural_notes">>

JsonMeal(m) ==
    JsonObject(m, MealKeys,
               LAMBDA k : IF k = "rating" THEN JsonNumber(m[k]) ELSE JsonString(m[k]))

JsonActivity(a) == JsonObject(a, ActivityKeys, LAMBDA k : JsonString(a[k]))

JsonHotel(h) ==
    JsonObject(h, HotelKeys,
               LAMBDA k : IF k = "rating" THEN JsonNumber(h[k]) ELSE JsonString(h[k]))

JsonDay(d) ==
    JsonObject(d, DayKeys,
               LAMBDA k : IF k = "day_number" THEN str(d[k])
                          ELSE IF k = "date" THEN JsonString(d[k])
                          ELSE IF k \in MealSections THEN JsonMeal(d[k])
                          ELSE JsonActivity(d[k]))

JsonTips(t) == JsonObject(t, JsonTipKeys, LAMBDA k : JsonString(t[k]))

JsonDoc(doc) ==
    <<"{">> \o NL
      \o JsonString(<<"accommodation">>) \o <<":", " ">>
      \o JsonList([i \in 1..Len(doc.accommodation) |-> JsonHotel(doc.accommodation[i])])
      \o <<",">> \o NL
      \o JsonString(<<"daily_schedule">>) \o <<":", " ">>
      \o JsonList([i \in 1..Len(doc.daily_schedule) |-> JsonDay(doc.daily_schedule[i])])
      \o <<",">> \o NL
      \o JsonString(<<"travel_tips">>) \o <<":", " ">> \o JsonTips(doc.travel_tips)
      \o NL \o <<"}">>

\* the record without the field k
Without(rec, k) == [x \in DOMAIN rec \ {k} |-> rec[x]]

GoodMeal ==
    [spot |-> <<"Cafe">>, rating |-> <<4, <<"5">>>>, description |-> <<"cozy">>,
     url |-> <<"http://x.test">>]

GoodActivity ==
    [activity |-> <<"Walk">>, description |-> <<"easy">>, url |-> <<"http://x.test">>]

GoodHotel ==
    [name |-> <<"Inn">>, description |-> <<"quiet">>, location |-> <<"Center">>,
     rating |-> <<4, <<"6">>>>, unique_features |-> <<"pool">>,
     nightly_rate |-> <<"1", "0", "0">>, url |-> <<"http://x.test">>]

GoodDay ==
    [day_number |-> 1, date |-> Date1,
     breakfast |-> GoodMeal, morning_activity |-> GoodActivity,
     lunch |-> GoodMeal, afternoon_activity |-> GoodActivity,
     dinner |-> GoodMeal, evening_activity |-> GoodActivity]

GoodTips ==
    [weather |-> <<"sunny">>, transportation |-> <<"metro">>,
     cultural_notes |-> <<"bow">>]

JsonHotelLists ==
    { <<>>, <<GoodHotel>>,
      \* a rating below 4.2, a hotel without name
      <<[GoodHotel EXCEPT !.rating = <<4, <<"1">>>>]>>,
      <<GoodHotel, Without(GoodHotel, "name")>> }

JsonDayLists ==
    { <<>>, <<GoodDay>>,
      \* a meal rating above 5.0, a day without dinner, a meal without spot,
      \* an activity without url, a date that is no date
      <<[GoodDay EXCEPT !.lunch.rating = <<5, <<"1">>>>]>>,
      <<Without(GoodDay, "dinner")>>,
      <<[GoodDay EXCEPT !.breakfast = Without(GoodMeal, "spot")]>>,
      <<[GoodDay EXCEPT !.evening_activity = Without(GoodActivity, "url")]>>,
      <<[GoodDay EXCEPT !.date = <<"June", " ", "1">>]>> }

JsonTipsRecords == {GoodTips, Without(GoodTips, "weather")}

JsonDocs ==
    {[accommodation |-> a, daily_schedule |-> d, travel_tips |-> t] :
       a \in JsonHotelLists, d \in JsonDayLists, t \in JsonTipsRecords}

JsonTexts == {JsonDoc(doc) : doc \in JsonDocs}

TextResponses ==
    DateResponses \cup {RaisingResponse} \cup HeaderResponses
      \cup HotelResponses \cup DetailResponses \cup TipsResponses
      \cup JsonTexts

InitText ==
    /\ response_text \in TextResponses
    /\ pc = "start"
    /\ sections = <<>>
    /\ parsed_data = initial_parsed_data
    /\ result = NoResult
    /\ line_text = <<>>
    /\ line_out = NoOut
    /\ PromptUnused
    /\ ApiUnused

SpecText == InitText /\ [][Next]_vars

-----------------------------------------------------------------------------
(* Claims on the text of the response                                      *)

\* where "Day <N> - " starts, whatever follows it
LooseHeaders(s) ==
    {p \in 1..Len(s) :
       /\ HasLit(s, p, <<"Day", " ">>)
       /\ RunLen(s, p + 2, Digit) >= 1
       /\ HasLit(s, p + 2 + RunLen(s, p + 2, Digit), <<" ", "-", " ">>)}

\* the text between "Day <N> - " at p and the colon that ends the header
EmbeddedDate(s, p) ==
    LET b == p + 2 + RunLen(s, p + 2, Digit) + 3
    IN  SubSeq(s, b, Find(s, <<":">>, b) - 1)

\* C11 as claimed: every day header gives an entry, and the entry of a
\* header whose date is no YYYY-MM-DD calendar date has its date unset or
\* empty.
C11_UnparsableDateLeftEmpty ==
    Returned /\ ~Raised =>
        LET s == daily_section(response_text)
        IN  /\ Len(ReturnedSchedule) = Cardinality(LooseHeaders(s))
            /\ \A p \in LooseHeaders(s) :
                 ~IsCalendarDate(EmbeddedDate(s, p)) =>
                    ReturnedSchedule[Rank(LooseHeaders(s), p)].date \in {<<>>, None}

\* C11 as amended: the date of a header is never parsed. A header whose date
\* has the shape dddd-dd-dd gives an entry whose date is those ten
\* characters as written, calendar date or not ("2024-13-45" stays
\* "2024-13-45"); a header whose date has another shape is no header and
\* gives no entry; no date raises. (The schedule is empty when a meal rating
\* made the parser fall back.)
C11_DateKeptAsWritten ==
    pc = "done" =>
        LET s == daily_section(response_text)
            F == FirstHeaders(s)
        IN  /\ result.kind = "returned"
            /\ Raised => ReturnedSchedule = <<>>
            /\ ~Raised =>
                 /\ Len(ReturnedSchedule) = Cardinality(F)
                 /\ \A p \in F :
                      /\ ReturnedSchedule[Rank(F, p)].date = EmbeddedDate(s, p)
                      /\ HasDateShape(ReturnedSchedule[Rank(F, p)].date)
            /\ \A p \in LooseHeaders(s) :
                 p \in HeaderPositions(s) <=> HasDateShape(EmbeddedDate(s, p))

\* C11 witness: an entry dated with no day of the calendar came back, and a
\* header of another shape gave no entry
C11_InvalidDateReturned ==
    /\ Returned /\ ~Raised
    /\ \E i \in 1..Len(ReturnedSchedule) :
         ~IsCalendarDate(ReturnedSchedule[i].date)
    /\ Cardinality(LooseHeaders(daily_section(response_text)))
         > Len(ReturnedSchedule)

\* a header word in another spelling than the three the parser splits at
VariantWords ==
    {"Accommodation", "accommodation", "daily itinerary", "DAILY SCHEDULE",
     "Travel Tips"}

RECURSIVE Canonical(_)
\* the text with every header written "ACCOMMODATION:", "DAILY ITINERARY:",
\* "TRAVEL TIPS:"
Canonical(s) ==
    IF s = <<>> THEN <<>>
    ELSE IF s[1] \in VariantWords \cup {"ACCOMMODATION", "DAILY ITINERARY", "TRAVEL TIPS"}
    THEN <<HeaderWord(s[1]), ":">>
           \o Canonical(IF Len(s) >= 2 /\ s[2] = ":" THEN From(s, 3) ELSE Tail(s))
    ELSE <<s[1]>> \o Canonical(Tail(s))

\* the header, exactly as the parser spells it, starts the text or a line
HasHeader(text, header) ==
    \/ startswith(strip(text), <<header, ":">>)
    \/ Contains(text, <<"\n", header, ":">>)

\* C12 as claimed: a response whose headers are written "Accommodation",
\* "daily itinerary" or "DAILY SCHEDULE", "Travel Tips" is split into the
\* same sections and parsed to the same result as the response with the
\* headers "ACCOMMODATION:", "DAILY ITINERARY:", "TRAVEL TIPS:".
C12_HeadersInAnySpelling ==
    /\ pc = "loop" /\ sections = split_sections(response_text) =>
         Len(sections) = Len(split_sections(Canonical(response_text)))
    /\ pc = "done" =>
         result = parse_itinerary_response(Canonical(response_text))

\* C12 as amended: a header is recognised only in the exact spelling
\* "ACCOMMODATION:", "DAILY ITINERARY:" or "TRAVEL TIPS:" (upper case, with
\* the colon) at the start of the text or of a line, and the text is split
\* before these lines only; without that header the field of its section
\* stays as initialised (accommodation [], daily_schedule [], travel_tips
\* {}), so a response with none of the three is one section that no parser
\* is run on. (When a meal rating made the parser fall back, the result is
\* the default record.)
C12_OnlyExactHeaders ==
    /\ pc = "loop" /\ sections = split_sections(response_text) =>
         Len(sections)
           = 1 + Cardinality({i \in 1..Len(response_text) :
                                response_text[i] = "\n"
                                /\ i + 2 <= Len(response_text)
                                /\ response_text[i + 1]
                                     \in {"ACCOMMODATION", "DAILY ITINERARY", "TRAVEL TIPS"}
                                /\ response_text[i + 2] = ":"})
    /\ pc = "done" /\ Raised => result.value = default_record
    /\ pc = "done" /\ ~Raised =>
         /\ ~HasHeader(response_text, "ACCOMMODATION")
              => result.value.accommodation = <<>>
         /\ ~HasHeader(response_text, "DAILY ITINERARY")
              => result.value.daily_schedule = <<>>
         /\ ~HasHeader(response_text, "TRAVEL TIPS")
              => DOMAIN result.value.travel_tips = {}

\* C12 witness: a response with its three headers in other spellings came
\* back with nothing parsed
C12_VariantHeadersIgnored ==
    /\ Returned /\ ~Raised
    /\ \A h \in {"ACCOMMODATION", "DAILY ITINERARY", "TRAVEL TIPS"} :
         ~HasHeader(response_text, h)
    /\ Cardinality({response_text[k] : k \in 1..Len(response_text)}
                     \cap VariantWords) = 3
    /\ result.value.accommodation = <<>>
    /\ result.value.daily_schedule = <<>>
    /\ DOMAIN result.value.travel_tips = {}

\* the lines of s, each stripped
StrippedLines(s) ==
    LET L == split(s, NL)
    IN  [i \in 1..Len(L) |-> strip(L[i])]

\* the line l starts with a number and a period
IsNumbered(l) ==
    \E n \in 1..Len(l) :
      /\ \A k \in 1..n : l[k] \in Digit
      /\ n < Len(l)
      /\ l[n + 1] = "."

\* the lines of s that start with a number and a period, by index
NumberedLines(s) ==
    LET L == StrippedLines(s)
    IN  {i \in 1..Len(L) : IsNumbered(L[i])}

\* the lines of s that hold a markdown link [name](url), by index
LinkLines(s) ==
    LET L == StrippedLines(s)
    IN  {i \in 1..Len(L) : \E k \in 1..Len(L[i]) : LinkAt(L[i], k)[1] > 0}

\* C13 as claimed: an accommodation entry begins at every numbered line and
\* at every line that holds a markdown link, and as many accommodations are
\* returned as there are such lines.
C13_LinkLinesStartEntries ==
    pc = "done" /\ ~Raised =>
        LET a == accommodation_section(response_text)
        IN  Len(result.value.accommodation)
              = Cardinality(NumberedLines(a) \cup LinkLines(a))

\* C13 as amended: an accommodation entry begins only at a line that starts
\* with a number and a period; as many accommodations are returned as there
\* are such lines, the i-th named from the i-th such line, and a line that
\* holds a link but no number starts nothing (and none are returned when a
\* meal rating made the parser fall back).
C13_OnlyNumberedLinesStart ==
    pc = "done" =>
        LET a      == accommodation_section(response_text)
            N      == NumberedLines(a)
            L      == StrippedLines(a)
            hotels == result.value.accommodation
        IN  IF Raised THEN hotels = <<>>
            ELSE /\ Len(hotels) = Cardinality(N)
                 /\ \A i \in N : Contains(L[i], hotels[Rank(N, i)].name)

\* C13 witness: a section with a bare link line gave entries for its
\* numbered lines only
C13_BareLinkLineIgnored ==
    /\ Returned /\ ~Raised
    /\ LET a == accommodation_section(response_text)
       IN  /\ LinkLines(a) \ NumberedLines(a) # {}
           /\ NumberedLines(a) # {}
           /\ Len(result.value.accommodation) = Cardinality(NumberedLines(a))

\* the details of the entry that the numbered line i of section a starts:
\* its dash-lines up to the next numbered line, without dash and blanks
DetailsOf(a, i) ==
    LET L      == StrippedLines(a)
        later  == {j \in NumberedLines(a) : j > i}
        last   == IF later = {} THEN Len(L) ELSE Min(later) - 1
        dashes == SelectSeq(SubSeq(L, i + 1, last),
                            LAMBDA l : l # <<>> /\ l[1] = "-")
    IN  [k \in 1..Len(dashes) |-> strip(Tail(dashes[k]))]

RECURSIVE SpaceJoined(_)
\* the texts joined by single blanks, left to right
SpaceJoined(texts) ==
    IF texts = <<>> THEN <<>>
    ELSE LET front == SpaceJoined(SubSeq(texts, 1, Len(texts) - 1))
         IN  IF front = <<>> THEN texts[Len(texts)]
             ELSE front \o <<" ">> \o texts[Len(texts)]

\* the place in the chain of the first label for which has(detail, label)
\* holds, 0 if there is none
FirstLabel(chain, detail, has(_, _)) ==
    LET N == {n \in 1..Len(chain) : has(detail, chain[n])}
    IN  IF N = {} THEN 0 ELSE Min(N)

\* the last detail for which ok holds, 0 if there is none
LastDetail(D, ok(_)) ==
    LET K == {k \in 1..Len(D) : ok(D[k])}
    IN  IF K = {} THEN 0 ELSE Max(K)

\* the five labels of the claim, in lower case
ClaimedLabels ==
    << <<"location", ":">>, <<"rating", ":">>, <<"unique", " ", "features", ":">>,
       <<"nightly", " ", "rate", ":">>, <<"description", ":">> >>

ClaimedLabelOf(detail) == FirstLabel(ClaimedLabels, detail, LowerContains)

\* the labels the parser looks for, in the order it tries them
CodeLabels ==
    << <<"Location", ":">>,
       <<"Official", " ", "Star", " ", "Rating", ":">>,
       <<"User", " ", "Rating", ":">>,
       <<"Unique", " ", "Features", ":">>,
       <<"Price", " ", "Range", " ", "Category", ":">>,
       <<"Typical", " ", "Nightly", " ", "Rate", ":">> >>

CodeLabelOf(detail) == FirstLabel(CodeLabels, detail, Contains)

tips_section(text) ==
    LET S == split_sections(text)
        I == {i \in 1..Len(S) : section_is(S[i], "TRAVEL TIPS")}
    IN  IF I = {} THEN <<>> ELSE S[Max(I)]

\* the field of the label that starts the line according to the claim, ""
\* when none does
ClaimedTipLabel(line) ==
    IF startswith(line, <<"Weather", ":">>) THEN "weather"
    ELSE IF startswith(line, <<"Transportation", ":">>) THEN "transportation"
    ELSE IF startswith(line, <<"Cultural", " ", "Notes", ":">>)
              \/ startswith(line, <<"Cultural", " ", "Etiquette", ":">>)
    THEN "cultural_notes"
    ELSE IF startswith(line, <<"Seasonal", " ", "Events", ":">>) THEN "seasonal_events"
    ELSE ""

RECURSIVE Appended(_, _)
\* the text with each of the lines appended after a blank
Appended(text, lines) ==
    IF lines = <<>> THEN text
    ELSE Appended(text \o <<" ">> \o lines[1], Tail(lines))

\* the value of the field under the labels given by labelOf: the rest of its
\* last label line and the unlabeled lines that follow it up to the next
\* label line, or "" when it has no label line
TipValue(s, field, labelOf(_)) ==
    LET L     == SelectSeq(StrippedLines(s), LAMBDA l : l # <<>>)
        own   == {i \in 1..Len(L) : labelOf(L[i]) = field}
        later == {i \in 1..Len(L) : labelOf(L[i]) # "" /\ i > Max(own)}
    IN  IF own = {} THEN <<>>
        ELSE Appended(after_colon(L[Max(own)]),
                      SubSeq(L, Max(own) + 1,
                             IF later = {} THEN Len(L) ELSE Min(later) - 1))

\* C17: a travel-tips line that starts with "Weather:", "Transportation:",
\* "Cultural Notes:" or "Cultural Etiquette:" (both cultural_notes) or
\* "Seasonal Events:" makes that field the active one and sets it to the
\* rest of the line; the non-empty unlabeled lines that follow are appended
\* to it, space-joined, until the next label line; unlabeled lines before
\* the first label change nothing.
C17_TipsByLabel ==
    pc = "done" /\ ~Raised /\ HasHeader(response_text, "TRAVEL TIPS") =>
        \A field \in TipKeys :
            result.value.travel_tips[field]
              = TipValue(tips_section(response_text), field, ClaimedTipLabel)

\* json.loads of a text of JsonTexts: the document it is the text of
decode(text) == CHOOSE doc \in JsonDocs : JsonDoc(doc) = text

HasKeys(rec, keys) == \A i \in 1..Len(keys) : keys[i] \in DOMAIN rec

\* 4.2 <= r <= 5.0
RatingInBounds(r) ==
    /\ r[1] \in {4, 5}
    /\ r[1] = 5 => r[2] = <<>>
    /\ r[1] = 4 => r[2] # <<>> /\ DigitVal(r[2][1]) >= 2

ValidMeal(m) == HasKeys(m, MealKeys) /\ RatingInBounds(m.rating)

\* the document has every required field of the schema, its dates are
\* YYYY-MM-DD dates and its ratings are within [4.2, 5.0]
ValidDoc(doc) ==
    /\ \A i \in 1..Len(doc.accommodation) :
         /\ HasKeys(doc.accommodation[i], HotelKeys)
         /\ RatingInBounds(doc.accommodation[i].rating)
    /\ \A i \in 1..Len(doc.daily_schedule) :
         LET d == doc.daily_schedule[i]
         IN  /\ HasKeys(d, DayKeys)
             /\ IsCalendarDate(d.date)
             /\ \A m \in MealSections : ValidMeal(d[m])
             /\ \A m \in ActivitySections : HasKeys(d[m], ActivityKeys)
    /\ HasKeys(doc.travel_tips, JsonTipKeys)

\* C18 as claimed: a response that is valid JSON of the schema is returned
\* as decoded, parse(text) = decode(text).
C18_ValidJsonDecoded ==
    pc = "done" /\ response_text \in JsonTexts /\ ValidDoc(decode(response_text)) =>
        result.kind = "returned" /\ result.value = decode(response_text)

\* C18 as amended: the parser has no JSON mode. A JSON text, valid or not,
\* holds no section header and is read as text of no section: the result is
\* accommodation [], daily_schedule [] and travel_tips {}, whatever the
\* document holds, and nothing is raised.
C18_JsonReadAsText ==
    pc = "done" /\ response_text \in JsonTexts =>
        /\ result.kind = "returned"
        /\ ~Raised
        /\ result.value.accommodation = <<>>
        /\ result.value.daily_schedule = <<>>
        /\ DOMAIN result.value.travel_tips = {}

\* C18 witness: a valid document with a hotel and a day came back empty
C18_ValidJsonEmpty ==
    /\ pc = "done" /\ response_text \in JsonTexts
    /\ ValidDoc(decode(response_text))
    /\ decode(response_text).accommodation # <<>>
    /\ decode(response_text).daily_schedule # <<>>
    /\ result.value.accommodation = <<>>
    /\ result.value.daily_schedule = <<>>

\* C19: a JSON response with a schema violation anywhere (a required field
\* missing, a rating outside [4.2, 5.0]) is replaced as a whole by the
\* default record.
C19_InvalidJsonGivesDefault ==
    pc = "done" /\ response_text \in JsonTexts /\ ~ValidDoc(decode(response_text)) =>
        result.kind = "returned" /\ result.value = default_record

-----------------------------------------------------------------------------
(* Claims on activity lines                                                *)

\* C15: the time of an activity line is its parenthetical time-of-day token,
\* also when the line carries a link [name](url), whose name and target
\* then are activity and url; without any parenthetical, time is empty.
C15_TimeIsTimeToken ==
    pc = "activity_done" =>
        \A l \in ActivityLabels, n \in ActivityNames, t \in TimeParts,
           p \in LocationParts :
            /\ line_text = ActivityLine(l, n, t, p)
            /\ ~Contains(p, <<"(">>)
            => /\ ~line_out.exc
               /\ \A k \in TimeTokens :
                    t = <<" ">> \o Paren(k) => line_out.val.time = k
               /\ t = <<>> => line_out.val.time = <<>>
               /\ n = Link(<<"Walk">>, <<"http://x.test">>) =>
                    /\ line_out.val.activity = <<"Walk">>
                    /\ line_out.val.url = <<"http://x.test">>

\* the text after the first "@" of the line, up to the first of the stops
\* or to the end, stripped
AfterAt(line, stops) ==
    LET a == Min({i \in 1..Len(line) : line[i] = "@"})
        E == {i \in (a + 1)..Len(line) : line[i] \in stops}
    IN  strip(SubSeq(line, a + 1, IF E = {} THEN Len(line) ELSE Min(E) - 1))

\* C16 as claimed: the location is the text after "@" up to the next
\* parenthesis or the end of the line, trimmed, periods included.
C16_LocationUpToParenthesis ==
    pc = "activity_done" /\ Contains(line_text, <<"@">>) =>
        line_out.val.location = AfterAt(line_text, {"("})

\* C16 as amended: the location is the text after the first "@" up to the
\* first period or, without one, the end of the line, trimmed: a
\* parenthetical that follows is part of it and a name with a period is cut
\* ("St. Mark's Square" gives "St"); a line without "@" gives "".
C16_LocationUpToPeriod ==
    pc = "activity_done" =>
        line_out.val.location
          = IF Contains(line_text, <<"@">>) THEN AfterAt(line_text, {"."})
            ELSE <<>>

\* C16 witness: "@ St. Mark's Square" came back as "St", and
\* "@ Park (near gate)" with its parenthetical
C16_CutAtPeriod ==
    /\ pc = "activity_done"
    /\ \/ /\ Contains(line_text, <<"@", " ", "St", ".", " ", "Mark's">>)
          /\ line_out.val.location = <<"St">>
       \/ /\ Contains(line_text, <<"@", " ", "Park", " ", "(">>)
          /\ line_out.val.location = <<"Park", " ", "(", "near", " ", "gate", ")">>

-----------------------------------------------------------------------------
(* Claims on the prompt                                                    *)

\* the date a is before the date b
Before(a, b) ==
    \/ a[1] < b[1]
    \/ a[1] = b[1] /\ a[2] < b[2]
    \/ a[1] = b[1] /\ a[2] = b[2] /\ a[3] < b[3]

\* the days of the calendar in the years of the trips
CalendarDays ==
    {d \in {y[1] : y \in PromptDates} \X (1..12) \X (1..31) :
       d[3] <= DaysInMonth(d[1], d[2])}

\* the days from a on that are before b, counted one by one
DaysFrom(a, b) ==
    Cardinality({d \in CalendarDays : (d = a \/ Before(a, d)) /\ Before(d, b)})

\* end - start in days, negative when end is before start
DaysApart(start, end) ==
    IF Before(end, start) THEN 0 - DaysFrom(end, start) ELSE DaysFrom(start, end)

\* C20: the prompt of a trip holds its destination and its length in days,
\* end_date - start_date + 1, for every pair of dates; a trip that starts
\* and ends on the same day has length 1.
C20_PromptHasLengthAndDestination ==
    pc = "prompt_built" =>
        /\ Contains(prompt, <<"Destination", ":", " ">> \o trip.destination \o NL)
        /\ Contains(prompt,
                    <<"Length of Stay", ":", " ">>
                      \o str(DaysApart(trip.start_date, trip.end_date) + 1)
                      \o <<" ", "days">> \o NL)
        /\ trip.start_date = trip.end_date =>
             Contains(prompt, <<"Length of Stay", ":", " ", "1", " ", "days">>)

\* C20 witness: a trip over the leap day, 2024-02-28 to 2024-03-01, with a
\* profile, has "Length of Stay: 3 days" and its destination in the prompt
C20_LeapDayCounted ==
    /\ pc = "prompt_built"
    /\ user_profile.found
    /\ trip.start_date = <<2024, 2, 28>> /\ trip.end_date = <<2024, 3, 1>>
    /\ Contains(prompt, <<"Length of Stay", ":", " ", "3", " ", "days">>)
    /\ Contains(prompt, <<"Destination", ":", " ">> \o trip.destination)

-----------------------------------------------------------------------------
(* The HTTP endpoints of src/main.py over the database.                    *)
(*                                                                         *)
(* A table is the set of its rows, a row a record.  Every handler is one   *)
(* transaction and one action, except create_trip, which is suspended at   *)
(* "await generate_itinerary(trip)" after it has committed the Trip row:   *)
(* other requests run in between.  SpecApi is the life of a trip           *)
(* (create_trip and delete_trip); SpecOwner is the eight trip-scoped       *)
(* handlers over the trips of two users.  The text-generation service is outside  *)
(* the program: its outcome is an input of the step that resumes the       *)
(* handler.  The class Itinerary that main.py imports is not defined in    *)
(* src/models/itineraries.py, so whether its trip_id is an enforced        *)
(* foreign key and whether ai_suggestions may be NULL is left open: schema *)
(* takes every combination.                                                *)

parser_vars == <<response_text, pc, sections, parsed_data, result, line_text, line_out>>

ParserUnused ==
    /\ response_text = <<>> /\ sections = <<>> /\ parsed_data = initial_parsed_data
    /\ result = NoResult /\ line_text = <<>> /\ line_out = NoOut

Users == {"alice", "bob"}

\* HTTPBearer credentials: absent, or a token with a subject, whose
\* signature, audience and expiry jwt.decode accepts or not
NoCredentials == [present |-> FALSE, sub |-> "", signed |-> FALSE]

Credentials ==
    {NoCredentials} \cup
    {[present |-> TRUE, sub |-> u, signed |-> TRUE] : u \in Users} \cup
    {[present |-> TRUE, sub |-> "alice", signed |-> FALSE]}

\* src/main.py lines 56-81: the decoded payload, or HTTPException 401
verify_token(credentials) ==
    IF credentials.signed
    THEN [exc |-> FALSE, val |-> [sub |-> credentials.sub]]
    ELSE [exc |-> TRUE, val |-> [sub |-> ""]]

\* datetime.date comparison and "current_date += timedelta(days=1)"
date_lt(a, b) ==
    \/ a[1] < b[1]
    \/ a[1] = b[1] /\ a[2] < b[2]
    \/ a[1] = b[1] /\ a[2] = b[2] /\ a[3] < b[3]

date_le(a, b) == a = b \/ date_lt(a, b)

add_day(d) ==
    IF d[3] < DaysInMonth(d[1], d[2]) THEN <<d[1], d[2], d[3] + 1>>
    ELSE IF d[2] < 12 THEN <<d[1], d[2] + 1, 1>>
    ELSE <<d[1] + 1, 1, 1>>

Placeholder == <<"To be parsed from AI response">>

\* what the chat completion call can do (openai_service.py lines 142-154)
GenerationOutcomes ==
    { [kind |-> "raises", content |-> None],
      [kind |-> "no_choices", content |-> None],
      [kind |-> "message", content |-> None],
      [kind |-> "message", content |-> RaisingResponse] }

\* generate_trip_plan that parses the content and raises when the parser
\* fell back to its default record
generate_trip_plan_parsed(outcome) ==
    IF outcome.kind \in {"raises", "no_choices"}
    THEN [exc |-> TRUE, val |-> None]
    ELSE IF outcome.content # None
            /\ parse_itinerary_response(outcome.content).value = default_record
    THEN [exc |-> TRUE, val |-> None]
    ELSE [exc |-> FALSE, val |-> outcome.content]

\* openai_service.py lines 139-159: the content of the first choice, absent
\* or not; an exception of the client or an empty choices list is raised on
generate_trip_plan(outcome) ==
    IF outcome.kind \in {"raises", "no_choices"}
    THEN [exc |-> TRUE, val |-> None]
    ELSE [exc |-> FALSE, val |-> outcome.content]

\* src/main.py lines 125-130: any exception becomes HTTPException 500
generate_itinerary(outcome) == generate_trip_plan(outcome)

\* lines 415-416, 418 as a loop bound that leaves the last day out
until_end_date_exclusive(current_date, end_date) == date_lt(current_date, end_date)

\* line 418: while current_date <= trip.end_date
until_end_date(current_date, end_date) == date_le(current_date, end_date)

RECURSIVE itinerary_rows(_, _, _, _, _)
\* src/main.py lines 415-431: one Itinerary per pass of the while loop
itinerary_rows(t, itinerary_content, current_date, day_number, id) ==
    IF until_end_date(current_date, t.end_date)
    THEN {[id |-> id, trip_id |-> t.id, day_number |-> day_number,
           date |-> current_date, morning_activities |-> Placeholder,
           ai_suggestions |-> itinerary_content]}
         \cup itinerary_rows(t, itinerary_content, add_day(current_date),
                             day_number + 1, id + 1)
    ELSE {}

MaxTrips == 1

ApiDates == <<<<2024, 2, 28>>, <<2024, 2, 29>>, <<2024, 3, 1>>>>

\* request bodies of create_trip: two days over the end of February in a
\* leap year, one day, and an end date before the start date
TripBodies ==
    { [start_date |-> ApiDates[2], end_date |-> ApiDates[3]],
      [start_date |-> ApiDates[1], end_date |-> ApiDates[1]],
      [start_date |-> ApiDates[3], end_date |-> ApiDates[2]] }

NoOutcome == [kind |-> "none", content |-> None]

NoResponse ==
    [endpoint |-> "none", credentials |-> NoCredentials, trip_id |-> 0,
     day_number |-> 0, status_code |-> 0, generation |-> NoOutcome]

\* the request handled by the last step and the status sent (0 while the
\* handler is suspended and nothing has been sent)
Answer(endpoint, credentials, trip_id, day_number, status_code) ==
    [endpoint |-> endpoint, credentials |-> credentials, trip_id |-> trip_id,
     day_number |-> day_number, status_code |-> status_code,
     generation |-> NoOutcome]

profile_row(id, user_id, special_interests) ==
    [id |-> id, user_id |-> user_id, special_interests |-> special_interests]

InitApi ==
    /\ pc = "api"
    /\ ParserUnused
    /\ PromptUnused
    /\ trips = {}
    /\ itineraries = {}
    /\ user_profiles = {profile_row(1, "alice", None)}
    /\ sequences = [trips |-> 1, itineraries |-> 1, user_profiles |-> 2]
    /\ schema \in [itinerary_fk : BOOLEAN, suggestions_nullable : BOOLEAN]
    /\ requests = {}
    /\ response = NoResponse
    /\ calls = <<>>
    /\ token = <<>>
    /\ payload = <<>>

\* src/main.py lines 395-412: authentication, then the Trip row is added and
\* committed, and the handler awaits the generation.  trips.user_id is a
\* foreign key to user_profiles.user_id (src/models/trips.py line 12): without
\* a profile the commit raises and "except Exception" answers 500
CreateTripBegin ==
    \E body \in TripBodies, credentials \in Credentials :
        LET auth_result == verify_token(credentials)
            user_id == auth_result.val.sub
            row == [id |-> sequences.trips, user_id |-> user_id,
                    start_date |-> body.start_date, end_date |-> body.end_date,
                    is_published |-> FALSE, is_favorite |-> FALSE]
            status_code ==
                IF ~credentials.present THEN 403
                ELSE IF auth_result.exc THEN 401
                ELSE IF \A p \in user_profiles : p.user_id # user_id THEN 500
                ELSE 0
        IN  /\ pc = "api"
            /\ sequences.trips <= MaxTrips
            /\ IF status_code = 0
               THEN /\ trips' = trips \cup {row}
                    /\ sequences' = [sequences EXCEPT !.trips = @ + 1]
                    /\ requests' = requests \cup {[trip |-> row, credentials |-> credentials]}
                    /\ response' = Answer("create_trip", credentials, row.id, 0, 0)
               ELSE /\ response' = Answer("create_trip", credentials, 0, 0, status_code)
                    /\ UNCHANGED <<trips, sequences, requests>>
            /\ UNCHANGED <<itineraries, user_profiles, schema, calls, token, payload>>
            /\ UNCHANGED parser_vars
            /\ UNCHANGED prompt_vars

\* src/main.py lines 414-449: the generation call has ended.  A failure is
\* answered 500 (lines 125-130, 443-445); otherwise the Itinerary rows are
\* added and committed (a constraint of the table can refuse them), and the
\* response reads the Trip, which the commit has expired: it is loaded anew
\* and, when its row is gone, the load raises and line 447 answers 500
CreateTripResume ==
    \E r \in requests, outcome \in GenerationOutcomes :
        LET itinerary_content == generate_itinerary(outcome)
            rows == itinerary_rows(r.trip, itinerary_content.val, r.trip.start_date,
                                   1, sequences.itineraries)
            stored == {t \in trips : t.id = r.trip.id}
            refused ==
                /\ rows # {}
                /\ \/ schema.itinerary_fk /\ stored = {}
                   \/ ~schema.suggestions_nullable /\ itinerary_content.val = None
            status_code ==
                IF itinerary_content.exc \/ refused \/ stored = {} THEN 500 ELSE 200
        IN  /\ pc = "api"
            /\ requests' = requests \ {r}
            /\ IF itinerary_content.exc \/ refused
               THEN UNCHANGED <<itineraries, sequences>>
               ELSE /\ itineraries' = itineraries \cup rows
                    /\ sequences' = [sequences EXCEPT !.itineraries = @ + Cardinality(rows)]
            /\ response' = [Answer("create_trip", r.credentials, r.trip.id, 0, status_code)
                               EXCEPT !.generation = outcome]
            /\ UNCHANGED <<trips, user_profiles, schema, calls, token, payload>>
            /\ UNCHANGED parser_vars
            /\ UNCHANGED prompt_vars

\* the check at the head of a trip-scoped handler, without the comparison of
\* trip.user_id with the subject of the token
trip_access_any_user(credentials, trip_id) ==
    IF ~credentials.present THEN 403
    ELSE IF verify_token(credentials).exc THEN 401
    ELSE IF \A t \in trips : t.id # trip_id THEN 404
    ELSE 200

\* src/main.py lines 146-158 (and the same lines of the seven other
\* trip-scoped handlers): 403 without credentials, 401 for a token that does
\* not verify, 404 for no such trip, 403 for a trip of another user
trip_access(credentials, trip_id) ==
    IF ~credentials.present THEN 403
    ELSE IF verify_token(credentials).exc THEN 401
    ELSE IF \A t \in trips : t.id # trip_id THEN 404
    ELSE IF \E t \in trips : t.id = trip_id /\ t.user_id # verify_token(credentials).val.sub
         THEN 403
    ELSE 200

\* the ids a request can name: those a trip can have, and one more
TripIds == 1..(MaxTrips + 1)

DayNumbers == {1}

\* select(Itinerary).where(trip_id).where(day_number)
itinerary_of(trip_id, day_number) ==
    {i \in itineraries : i.trip_id = trip_id /\ i.day_number = day_number}

ApiUnchanged ==
    /\ UNCHANGED <<user_profiles, sequences, schema, requests, calls, token, payload>>
    /\ UNCHANGED parser_vars
    /\ UNCHANGED prompt_vars

\* src/main.py lines 139-165
PublishTrip ==
    \E credentials \in Credentials, trip_id \in TripIds, publish \in BOOLEAN :
        LET status_code == trip_access(credentials, trip_id)
        IN  /\ pc = "api"
            /\ trips' = IF status_code # 200 THEN trips
                        ELSE {IF t.id = trip_id THEN [t EXCEPT !.is_published = publish]
                              ELSE t : t \in trips}
            /\ response' = Answer("publish_trip", credentials, trip_id, 0, status_code)
            /\ UNCHANGED itineraries
            /\ ApiUnchanged

\* src/main.py lines 167-192
FavoriteTrip ==
    \E credentials \in Credentials, trip_id \in TripIds, favorite \in BOOLEAN :
        LET status_code == trip_access(credentials, trip_id)
        IN  /\ pc = "api"
            /\ trips' = IF status_code # 200 THEN trips
                        ELSE {IF t.id = trip_id THEN [t EXCEPT !.is_favorite = favorite]
                              ELSE t : t \in trips}
            /\ response' = Answer("favorite_trip", credentials, trip_id, 0, status_code)
            /\ UNCHANGED itineraries
            /\ ApiUnchanged

\* src/main.py lines 480-509
GetTrip ==
    \E credentials \in Credentials, trip_id \in TripIds :
        /\ pc = "api"
        /\ response' = Answer("get_trip", credentials, trip_id, 0,
                              trip_access(credentials, trip_id))
        /\ UNCHANGED <<trips, itineraries>>
        /\ ApiUnchanged

\* src/main.py lines 511-539: the itineraries of the trip, then the trip
DeleteTrip ==
    \E credentials \in Credentials, trip_id \in TripIds :
        LET status_code == trip_access(credentials, trip_id)
        IN  /\ pc = "api"
            /\ IF status_code # 200
               THEN UNCHANGED <<trips, itineraries>>
               ELSE /\ itineraries' = {i \in itineraries : i.trip_id # trip_id}
                    /\ trips' = {t \in trips : t.id # trip_id}
            /\ response' = Answer("delete_trip", credentials, trip_id, 0, status_code)
            /\ ApiUnchanged

\* src/main.py lines 542-568
GetTripItineraries ==
    \E credentials \in Credentials, trip_id \in TripIds :
        /\ pc = "api"
        /\ response' = Answer("get_trip_itineraries", credentials, trip_id, 0,
                              trip_access(credentials, trip_id))
        /\ UNCHANGED <<trips, itineraries>>
        /\ ApiUnchanged

\* src/main.py lines 570-600
GetItinerary ==
    \E credentials \in Credentials, trip_id \in TripIds, day_number \in DayNumbers :
        LET status_code == trip_access(credentials, trip_id)
        IN  /\ pc = "api"
            /\ response' = Answer("get_itinerary", credentials, trip_id, day_number,
                                  IF status_code # 200 THEN status_code
                                  ELSE IF itinerary_of(trip_id, day_number) = {} THEN 404
                                  ELSE 200)
            /\ UNCHANGED <<trips, itineraries>>
            /\ ApiUnchanged

Edited == <<"edited">>

\* src/main.py lines 602-645: the six text fields are taken from the body
UpdateItinerary ==
    \E credentials \in Credentials, trip_id \in TripIds, day_number \in DayNumbers :
        LET status_code == trip_access(credentials, trip_id)
            found == itinerary_of(trip_id, day_number)
        IN  /\ pc = "api"
            /\ IF status_code = 200 /\ found # {}
               THEN LET existing_itinerary == CHOOSE i \in found : \A j \in found : i.id <= j.id
                    IN  itineraries' = (itineraries \ {existing_itinerary}) \cup
                            {[existing_itinerary EXCEPT !.morning_activities = Edited,
                                                        !.ai_suggestions = Edited]}
               ELSE UNCHANGED itineraries
            /\ response' = Answer("update_itinerary", credentials, trip_id, day_number,
                                  IF status_code # 200 THEN status_code
                                  ELSE IF found = {} THEN 404 ELSE 200)
            /\ UNCHANGED trips
            /\ ApiUnchanged

\* src/main.py lines 647-678
DeleteItinerary ==
    \E credentials \in Credentials, trip_id \in TripIds, day_number \in DayNumbers :
        LET status_code == trip_access(credentials, trip_id)
            found == itinerary_of(trip_id, day_number)
        IN  /\ pc = "api"
            /\ IF status_code = 200 /\ found # {}
               THEN itineraries' = itineraries \
                        {CHOOSE i \in found : \A j \in found : i.id <= j.id}
               ELSE UNCHANGED itineraries
            /\ response' = Answer("delete_itinerary", credentials, trip_id, day_number,
                                  IF status_code # 200 THEN status_code
                                  ELSE IF found = {} THEN 404 ELSE 200)
            /\ UNCHANGED trips
            /\ ApiUnchanged

NextApi ==
    \/ CreateTripBegin
    \/ CreateTripResume
    \/ DeleteTrip

SpecApi == InitApi /\ [][NextApi]_vars

\* the rows a create_trip of user_id with this body and this text leaves
stored_trip(id, user_id, body) ==
    [id |-> id, user_id |-> user_id, start_date |-> body.start_date,
     end_date |-> body.end_date, is_published |-> FALSE, is_favorite |-> FALSE]

\* a two-day trip of alice and a one-day trip of bob, as create_trip stores them
InitOwner ==
    /\ pc = "api"
    /\ ParserUnused
    /\ PromptUnused
    /\ trips = { stored_trip(1, "alice", [start_date |-> ApiDates[2], end_date |-> ApiDates[3]]),
                 stored_trip(2, "bob", [start_date |-> ApiDates[1], end_date |-> ApiDates[1]]) }
    /\ itineraries =
           UNION { itinerary_rows(t, RaisingResponse, t.start_date, 1, 2 * t.id - 1) : t \in trips }
    /\ user_profiles = {profile_row(1, "alice", None), profile_row(2, "bob", None)}
    /\ sequences = [trips |-> 3, itineraries |-> 4, user_profiles |-> 3]
    /\ schema = [itinerary_fk |-> TRUE, suggestions_nullable |-> TRUE]
    /\ requests = {}
    /\ response = NoResponse
    /\ calls = <<>>
    /\ token = <<>>
    /\ payload = <<>>

NextOwner ==
    \/ PublishTrip
    \/ FavoriteTrip
    \/ GetTrip
    \/ DeleteTrip
    \/ GetTripItineraries
    \/ GetItinerary
    \/ UpdateItinerary
    \/ DeleteItinerary

SpecOwner == InitOwner /\ [][NextOwner]_vars

-----------------------------------------------------------------------------
(* Claims about create_trip and delete_trip, under SpecApi.                *)

\* the last step answered a request to this endpoint
Answered(endpoint) == response.endpoint = endpoint /\ response.status_code # 0

ItinerariesOf(trip_id) == {i \in itineraries : i.trip_id = trip_id}

TripRows(trip_id) == {t \in trips : t.id = trip_id}

\* the three ways named by the claim in which a generation yields no content
NoContent(outcome) ==
    \/ outcome.kind \in {"raises", "no_choices"}
    \/ outcome.kind = "message" /\ outcome.content = None

ReturnedText(outcome) == outcome.kind = "message" /\ outcome.content # None

\* C21: when the generation call fails or returns no content (an exception,
\* an empty choices list, a message without content), create_trip answers
\* with an error and no Itinerary row of that trip is stored
C21_FailedGenerationStoresNothing ==
    Answered("create_trip") /\ NoContent(response.generation)
        => /\ response.status_code >= 400
           /\ ItinerariesOf(response.trip_id) = {}

\* C22 as claimed: whenever the generation call returns text, the request
\* succeeds and an itinerary is stored for the trip
C22_TextAlwaysStored ==
    Answered("create_trip") /\ ReturnedText(response.generation)
        => /\ response.status_code = 200
           /\ ItinerariesOf(response.trip_id) # {}

\* C22 as amended: whenever the generation call returns text, however
\* malformed, the text is stored unparsed and never decides the answer: with
\* the Trip row still there the request succeeds with one Itinerary row per
\* day from start_date to end_date, each holding the text (no row when
\* end_date is before start_date); with the Trip row deleted during the
\* generation the request ends with 500
C22_TextNeverFailsRequest ==
    Answered("create_trip") /\ ReturnedText(response.generation)
        => IF TripRows(response.trip_id) = {}
           THEN response.status_code = 500
           ELSE LET t == CHOOSE t \in TripRows(response.trip_id) : TRUE
                    rows == ItinerariesOf(response.trip_id)
                    n == toordinal(t.end_date) - toordinal(t.start_date) + 1
                IN  /\ response.status_code = 200
                    /\ {r.day_number : r \in rows} = 1..n
                    /\ \A r \in rows : r.ai_suggestions = response.generation.content

\* a text on which the parser falls back to its default record was returned,
\* the request succeeded and rows holding that text are stored
C22_MalformedTextStored ==
    /\ Answered("create_trip")
    /\ response.status_code = 200
    /\ response.generation.content = RaisingResponse
    /\ parse_itinerary_response(RaisingResponse).value = default_record
    /\ \E r \in ItinerariesOf(response.trip_id) : r.ai_suggestions = RaisingResponse

C26_OneRowPerDay ==
    Answered("create_trip") /\ TripRows(response.trip_id) # {}
        => LET t == CHOOSE t \in TripRows(response.trip_id) : TRUE
               rows == ItinerariesOf(response.trip_id)
               n == toordinal(t.end_date) - toordinal(t.start_date) + 1
           IN  /\ response.status_code = 200
                   => /\ Cardinality(rows) = Max({0, n})
                      /\ {r.day_number : r \in rows} = 1..n
                      /\ \A r \in rows :
                            /\ r.date[2] \in 1..12
                            /\ r.date[3] \in 1..DaysInMonth(r.date[1], r.date[2])
                            /\ toordinal(r.date) = toordinal(t.start_date) + r.day_number - 1
               /\ response.generation.kind = "message" /\ n <= 0
                   => response.status_code = 200 /\ rows = {}

\* a trip from 29 February to 1 March 2024 was stored with two rows, the
\* second dated 1 March
C26_TwoDaysOverLeapDay ==
    /\ Answered("create_trip")
    /\ response.status_code = 200
    /\ Cardinality(ItinerariesOf(response.trip_id)) = 2
    /\ \E r \in ItinerariesOf(response.trip_id) :
          r.day_number = 2 /\ r.date = <<2024, 3, 1>>

\* C27: create_trip is all-or-nothing: when it answers with an error (failed
\* authentication, failed generation, failure while storing the itineraries)
\* the database holds neither the Trip row nor an Itinerary row of the request
C27_AllOrNothing ==
    Answered("create_trip") /\ response.status_code >= 400
        => /\ TripRows(response.trip_id) = {}
           /\ ItinerariesOf(response.trip_id) = {}

-----------------------------------------------------------------------------
(* Claims about the trip-scoped handlers, under SpecOwner.                 *)

TripScoped ==
    {"publish_trip", "favorite_trip", "get_trip", "delete_trip",
     "get_trip_itineraries", "get_itinerary", "update_itinerary", "delete_itinerary"}

\* the trip named by the request exists and belongs to this subject
OwnedBy(trip_id, sub) == \E t \in trips : t.id = trip_id /\ t.user_id = sub

OwnedByOther(trip_id, sub) == \E t \in trips : t.id = trip_id /\ t.user_id # sub

\* C24: a request to a trip-scoped endpoint with a verified token whose
\* subject differs from trip.user_id is answered 403 and leaves the trips and
\* the itineraries as they were; in any sequence of requests a trip and its
\* itineraries are read, modified or deleted only by the owner of the trip
C24_OnlyOwnerActs ==
    [][ response'.endpoint \in TripScoped
          => /\ response'.credentials.signed
                /\ OwnedByOther(response'.trip_id, response'.credentials.sub)
                  => /\ response'.status_code = 403
                     /\ trips' = trips
                     /\ itineraries' = itineraries
             /\ response'.status_code = 200
                  => /\ response'.credentials.signed
                     /\ OwnedBy(response'.trip_id, response'.credentials.sub)
             /\ trips' # trips \/ itineraries' # itineraries
                  => response'.status_code = 200 ]_vars

\* bob, with a valid token, asked to delete the trip of alice, which has its
\* itineraries, and was answered 403
C24_StrangerRefused ==
    /\ response.endpoint = "delete_trip"
    /\ response.credentials.signed
    /\ response.credentials.sub = "bob"
    /\ response.status_code = 403
    /\ \E t \in trips : t.id = response.trip_id /\ t.user_id = "alice"
    /\ ItinerariesOf(response.trip_id) # {}

-----------------------------------------------------------------------------
(* Concurrent invocations of parse_itinerary_response.  Every name of the  *)
(* function (sections, parsed_data, the nested extractors) is local to the *)
(* invocation: calls[i] is the frame of invocation i, and a step of one    *)
(* invocation is one of the steps of the state machine above, taken on its *)
(* own frame while the other invocations stand anywhere.                   *)

MaxCalls == 2

CallTexts ==
    {Assemble(a, <<"DAILY ITINERARY", ":">> \o NL \o Header(<<"1">>, Date1) \o NL
                     \o <<"Breakfast", ":", " ", "Cafe", " ", "Luna", " ",
                          "(", "4", ".", "7", ")">>,
              <<"TRAVEL TIPS", ":">> \o NL \o <<"Weather", ":", " ", "sunny">>) :
        a \in AccommodationTexts \ {<<>>}}
    \cup {RaisingResponse, <<>>}

new_call(text) ==
    [response_text |-> text, pc |-> "start", sections |-> <<>>,
     parsed_data |-> initial_parsed_data, result |-> NoResult]

\* parsed_data kept in one place for all invocations (a class attribute, a
\* mutable default argument): every invocation works on the dict of the first
shared_parsed_data(c, i) == c[1].parsed_data

\* lines 397-401: parsed_data is a dict created by the invocation
local_parsed_data(c, i) == c[i].parsed_data

CallsUnchanged ==
    /\ UNCHANGED <<trips, itineraries, user_profiles, sequences, schema, requests,
                   response, token, payload>>
    /\ UNCHANGED parser_vars
    /\ UNCHANGED prompt_vars

InitCalls ==
    /\ pc = "calls"
    /\ ParserUnused
    /\ PromptUnused
    /\ trips = {} /\ itineraries = {} /\ user_profiles = {}
    /\ sequences = <<>> /\ schema = <<>> /\ requests = {} /\ response = <<>>
    /\ token = <<>> /\ payload = <<>>
    /\ calls \in [1..MaxCalls -> {new_call(text) : text \in CallTexts}]

\* lines 396-401 in invocation i
CallSplit ==
    \E i \in DOMAIN calls :
        /\ pc = "calls"
        /\ calls[i].pc = "start"
        /\ calls' = [calls EXCEPT ![i] =
                        [@ EXCEPT !.sections = split_sections(calls[i].response_text),
                                  !.parsed_data = initial_parsed_data,
                                  !.pc = "loop"]]
        /\ CallsUnchanged

\* lines 404-406 in invocation i
CallAccommodation ==
    \E i \in DOMAIN calls :
        /\ pc = "calls"
        /\ calls[i].pc = "loop" /\ calls[i].sections # <<>>
        /\ section_is(Head(calls[i].sections), "ACCOMMODATION")
        /\ calls' = [calls EXCEPT ![i] =
                        [@ EXCEPT !.parsed_data =
                                     [local_parsed_data(calls, i) EXCEPT
                                        !.accommodation =
                                           parse_accommodation(Head(calls[i].sections))],
                                  !.sections = Tail(calls[i].sections)]]
        /\ CallsUnchanged

\* lines 407-408 in invocation i
CallDaily ==
    \E i \in DOMAIN calls :
        /\ pc = "calls"
        /\ calls[i].pc = "loop" /\ calls[i].sections # <<>>
        /\ ~section_is(Head(calls[i].sections), "ACCOMMODATION")
        /\ section_is(Head(calls[i].sections), "DAILY ITINERARY")
        /\ LET r == parse_daily_activities(Head(calls[i].sections))
           IN  calls' = [calls EXCEPT ![i] =
                           IF r.exc
                           THEN [@ EXCEPT !.pc = "except"]
                           ELSE [@ EXCEPT !.parsed_data =
                                             [local_parsed_data(calls, i) EXCEPT
                                                !.daily_schedule = r.val],
                                          !.sections = Tail(calls[i].sections)]]
        /\ CallsUnchanged

\* lines 409-410 in invocation i
CallTravelTips ==
    \E i \in DOMAIN calls :
        /\ pc = "calls"
        /\ calls[i].pc = "loop" /\ calls[i].sections # <<>>
        /\ ~section_is(Head(calls[i].sections), "ACCOMMODATION")
        /\ ~section_is(Head(calls[i].sections), "DAILY ITINERARY")
        /\ section_is(Head(calls[i].sections), "TRAVEL TIPS")
        /\ calls' = [calls EXCEPT ![i] =
                        [@ EXCEPT !.parsed_data =
                                     [local_parsed_data(calls, i) EXCEPT
                                        !.travel_tips =
                                           parse_travel_tips(Head(calls[i].sections))],
                                  !.sections = Tail(calls[i].sections)]]
        /\ CallsUnchanged

\* line 404 in invocation i: a section of no known kind is passed over
CallOther ==
    \E i \in DOMAIN calls :
        /\ pc = "calls"
        /\ calls[i].pc = "loop" /\ calls[i].sections # <<>>
        /\ ~section_is(Head(calls[i].sections), "ACCOMMODATION")
        /\ ~section_is(Head(calls[i].sections), "DAILY ITINERARY")
        /\ ~section_is(Head(calls[i].sections), "TRAVEL TIPS")
        /\ calls' = [calls EXCEPT ![i] =
                        [@ EXCEPT !.parsed_data = local_parsed_data(calls, i),
                                  !.sections = Tail(calls[i].sections)]]
        /\ CallsUnchanged

\* line 415 in invocation i
CallReturn ==
    \E i \in DOMAIN calls :
        /\ pc = "calls"
        /\ calls[i].pc = "loop" /\ calls[i].sections = <<>>
        /\ calls' = [calls EXCEPT ![i] =
                        [@ EXCEPT !.result = [kind |-> "returned",
                                              value |-> local_parsed_data(calls, i)],
                                  !.pc = "done"]]
        /\ CallsUnchanged

\* lines 417-429 in invocation i
CallExcept ==
    \E i \in DOMAIN calls :
        /\ pc = "calls"
        /\ calls[i].pc = "except"
        /\ calls' = [calls EXCEPT ![i] =
                        [@ EXCEPT !.result = except_result, !.pc = "done"]]
        /\ CallsUnchanged

NextCalls ==
    \/ CallSplit
    \/ CallAccommodation
    \/ CallDaily
    \/ CallTravelTips
    \/ CallOther
    \/ CallReturn
    \/ CallExcept

SpecCalls == InitCalls /\ [][NextCalls]_vars

\* C23: the result of an invocation is a function of its input alone:
\* however the steps of concurrent invocations interleave, each returns what
\* it returns when run alone, and invocations on the same text return equal
\* results
C23_CallsIndependent ==
    /\ \A i \in DOMAIN calls :
          calls[i].pc = "done"
            => calls[i].result = parse_itinerary_response(calls[i].response_text)
    /\ \A i, j \in DOMAIN calls :
          /\ calls[i].pc = "done" /\ calls[j].pc = "done"
          /\ calls[i].response_text = calls[j].response_text
          => calls[i].result = calls[j].result

\* the second invocation has returned while the first, on another text, is
\* in its loop with a section parsed and a section to go
C23_ReturnedDuringOther ==
    /\ calls # <<>>
    /\ calls[2].pc = "done"
    /\ calls[1].pc = "loop"
    /\ calls[1].sections # <<>>
    /\ calls[1].parsed_data # initial_parsed_data
    /\ calls[1].response_text # calls[2].response_text
    /\ calls[2].result.value # default_record

-----------------------------------------------------------------------------
(* The profile handlers of src/main.py.  A handler selects the profile of  *)
(* the token's user and then writes and commits; requests of several       *)
(* workers interleave between the two, so each handler is two steps.       *)
(* user_profiles.user_id is unique and id is the primary key               *)
(* (src/models/user_profile.py line 54): a commit that would break either  *)
(* raises, and so does an UPDATE of a row that is gone.  alice has a        *)
(* profile and a trip, which keeps her profile from being deleted          *)
(* (src/models/trips.py line 12); bob has neither.                         *)

MaxPending == 2

MaxProfileId == 2

Art == <<"art">>

\* request bodies: special_interests alone (0 and "" for a field that is not
\* set), with the id and the user_id of the profile of alice, or with the
\* user_id of bob
ProfileBodies ==
    {profile_row(0, "", Art), profile_row(1, "alice", Art), profile_row(0, "bob", Art)}

ProfileEndpoints == {"create_user_profile", "update_user_profile", "delete_user_profile"}

ProfileAnswer(endpoint, credentials, body, status_code) ==
    [endpoint |-> endpoint, credentials |-> credentials, body |-> body,
     status_code |-> status_code]

\* the loop of lines 252-254 without its test: every field of the body is
\* copied, user_id included
copy_all_fields(existing_profile, body) ==
    [existing_profile EXCEPT
        !.special_interests = body.special_interests,
        !.user_id = IF body.user_id = "" THEN @ ELSE body.user_id]

\* lines 252-254 and 320-322: the fields of the body that are set, except id
\* and user_id
copy_fields(existing_profile, body) ==
    [existing_profile EXCEPT !.special_interests = body.special_interests]

InitProfiles ==
    /\ pc = "profiles"
    /\ ParserUnused
    /\ PromptUnused
    /\ user_profiles = {profile_row(1, "alice", None)}
    /\ trips = {stored_trip(1, "alice", [start_date |-> ApiDates[1],
                                         end_date |-> ApiDates[1]])}
    /\ itineraries = {}
    /\ sequences = [trips |-> 2, itineraries |-> 1, user_profiles |-> 2]
    /\ schema = [itinerary_fk |-> TRUE, suggestions_nullable |-> TRUE]
    /\ requests = {}
    /\ response = ProfileAnswer("none", NoCredentials, profile_row(0, "", None), 0)
    /\ calls = <<>>
    /\ token = <<>>
    /\ payload = <<>>

ProfilesUnchanged ==
    /\ UNCHANGED <<trips, itineraries, schema, calls, token, payload>>
    /\ UNCHANGED parser_vars
    /\ UNCHANGED prompt_vars

\* lines 235-247, 303-316, 342-355: authentication and the select of the
\* profile of the token's user; update and delete answer 404 without one
ProfileSelect ==
    \E endpoint \in ProfileEndpoints, credentials \in Credentials, body \in ProfileBodies :
        LET auth_result == verify_token(credentials)
            existing_profile == {p \in user_profiles : p.user_id = auth_result.val.sub}
            status_code ==
                IF ~credentials.present THEN 403
                ELSE IF auth_result.exc THEN 401
                ELSE IF endpoint # "create_user_profile" /\ existing_profile = {} THEN 404
                ELSE 0
        IN  /\ pc = "profiles"
            /\ Cardinality(requests) < MaxPending
            /\ requests' =
                 IF status_code # 0 THEN requests
                 ELSE requests \cup
                        {[endpoint |-> endpoint, credentials |-> credentials, body |-> body,
                          existing_id |-> IF existing_profile = {} THEN 0
                                          ELSE (CHOOSE p \in existing_profile : TRUE).id]}
            /\ response' = ProfileAnswer(endpoint, credentials, body, status_code)
            /\ UNCHANGED <<user_profiles, sequences>>
            /\ ProfilesUnchanged

\* lines 249-271, 318-335, 357-363: the write and the commit.  An UPDATE of
\* a row that is gone, an INSERT of a second row of the user or of a taken
\* id, and a DELETE of a profile that trips reference raise: rollback, 500
ProfileCommit ==
    \E r \in requests :
        LET user_id == verify_token(r.credentials).val.sub
            row == {p \in user_profiles : p.id = r.existing_id}
            new_id == IF r.body.id # 0 THEN r.body.id ELSE sequences.user_profiles
            inserts == r.endpoint = "create_user_profile" /\ r.existing_id = 0
            updates == ~inserts /\ r.endpoint # "delete_user_profile"
            raises ==
                \/ inserts /\ \E p \in user_profiles : p.user_id = user_id \/ p.id = new_id
                \/ updates /\ row = {}
                \/ updates /\ \E p \in row, q \in user_profiles \ row :
                                 copy_fields(p, r.body).user_id = q.user_id
                \/ r.endpoint = "delete_user_profile"
                     /\ \E p \in row, t \in trips : t.user_id = p.user_id
        IN  /\ pc = "profiles"
            /\ inserts /\ r.body.id = 0 => sequences.user_profiles <= MaxProfileId
            /\ requests' = requests \ {r}
            /\ user_profiles' =
                 IF raises THEN user_profiles
                 ELSE IF inserts
                 THEN user_profiles \cup {profile_row(new_id, user_id, r.body.special_interests)}
                 ELSE IF updates
                 THEN (user_profiles \ row) \cup {copy_fields(p, r.body) : p \in row}
                 ELSE user_profiles \ row
            /\ sequences' =
                 IF inserts /\ r.body.id = 0
                 THEN [sequences EXCEPT !.user_profiles = @ + 1]
                 ELSE sequences
            /\ response' = ProfileAnswer(r.endpoint, r.credentials, r.body,
                                         IF raises THEN 500 ELSE 200)
            /\ ProfilesUnchanged

NextProfiles == ProfileSelect \/ ProfileCommit

SpecProfiles == InitProfiles /\ [][NextProfiles]_vars

\* C28: after any sequence or interleaving of create, update and delete
\* requests there is at most one UserProfile row per user_id, and no step
\* changes the id or the user_id of a profile that exists: a row keeps its
\* user_id and a user keeps the id of their row, whatever the body names
C28_OneProfilePerUser ==
    [][ /\ \A p, q \in user_profiles' : p.user_id = q.user_id => p = q
        /\ \A p \in user_profiles, q \in user_profiles' :
              /\ q.id = p.id => q.user_id = p.user_id
              /\ q.user_id = p.user_id => q.id = p.id ]_vars

\* bob, who has a profile, sent an update whose body names the id and the
\* user_id of the profile of alice; it was answered 200 and both rows kept
\* their owner
C28_ReassignmentIgnored ==
    /\ response.endpoint = "update_user_profile"
    /\ response.status_code = 200
    /\ response.credentials.sub = "bob"
    /\ response.body.user_id = "alice" /\ response.body.id = 1
    /\ \E p \in user_profiles : p.user_id = "bob" /\ p.special_interests = Art
    /\ \E p \in user_profiles : p.user_id = "alice" /\ p.id = 1

-----------------------------------------------------------------------------
(* src/services/auth_helpers.py.  A token is what jwt.decode can tell of   *)
(* it: whether it has the form of a JWT, the claims of its payload ("" for *)
(* a claim it does not have) and whether its signature (and expiry)        *)
(* verifies under secret_key.                                              *)

Tokens ==
    [bearer : BOOLEAN, well_formed : BOOLEAN, signed : BOOLEAN,
     iss : {"", "supabase", "other"}, sub : {"", "alice"}, id : {"", "u2"},
     role : {"anon", "authenticated"}]

NoPayload == [iss |-> "", sub |-> "", id |-> "", role |-> "", user_id |-> ""]

\* auth_helpers.py lines 5-43: a 'Bearer ' prefix is cut off (it decides
\* nothing); the payload is decoded without verification;
\* only a token whose issuer is 'supabase' is decoded again with secret_key;
\* any exception becomes HTTPException 401
auth_helpers_verify_token(t) ==
    IF ~t.well_formed
    THEN [exc |-> TRUE, status_code |-> 401, val |-> NoPayload]
    ELSE IF t.iss = "supabase" /\ ~t.signed
    THEN [exc |-> TRUE, status_code |-> 401, val |-> NoPayload]
    ELSE [exc |-> FALSE, status_code |-> 200,
          val |-> [iss |-> t.iss, sub |-> t.sub, id |-> t.id, role |-> t.role,
                   user_id |-> IF t.iss = "supabase" THEN t.sub ELSE ""]]

\* auth_helpers.py lines 45-68: the first of sub, user_id, id that is set;
\* 401 without one
extract_user_id(p) ==
    LET user_id == IF p.sub # "" THEN p.sub
                   ELSE IF p.user_id # "" THEN p.user_id
                   ELSE p.id
    IN  IF user_id = ""
        THEN [exc |-> TRUE, status_code |-> 401, val |-> ""]
        ELSE [exc |-> FALSE, status_code |-> 200, val |-> user_id]

InitAuth ==
    /\ pc = "auth"
    /\ ParserUnused
    /\ PromptUnused
    /\ trips = {} /\ itineraries = {} /\ user_profiles = {}
    /\ sequences = <<>> /\ schema = <<>> /\ requests = {}
    /\ calls = <<>>
    /\ token \in Tokens
    /\ payload = [exc |-> FALSE, status_code |-> 0, val |-> NoPayload]
    /\ response = [exc |-> FALSE, status_code |-> 0, val |-> ""]

\* payload = verify_token(token, secret_key)
VerifyToken ==
    /\ pc = "auth"
    /\ payload' = auth_helpers_verify_token(token)
    /\ pc' = "verified"
    /\ UNCHANGED response
    /\ UNCHANGED <<response_text, sections, parsed_data, result, line_text, line_out>>
    /\ UNCHANGED <<trips, itineraries, user_profiles, sequences, schema, requests,
                   calls, token>>
    /\ UNCHANGED prompt_vars

\* user_id = extract_user_id(payload)
ExtractUserId ==
    /\ pc = "verified" /\ ~payload.exc
    /\ response' = extract_user_id(payload.val)
    /\ pc' = "extracted"
    /\ UNCHANGED payload
    /\ UNCHANGED <<response_text, sections, parsed_data, result, line_text, line_out>>
    /\ UNCHANGED <<trips, itineraries, user_profiles, sequences, schema, requests,
                   calls, token>>
    /\ UNCHANGED prompt_vars

NextAuth == VerifyToken \/ ExtractUserId

SpecAuth == InitAuth /\ [][NextAuth]_vars

\* C29: verify_token returns a payload only for a token whose signature
\* verifies under secret_key; for a token with an invalid or missing
\* signature, whatever its issuer, it raises HTTPException 401
C29_OnlySignedTokensPass ==
    pc \in {"verified", "extracted"} /\ ~(token.well_formed /\ token.signed)
        => payload.exc /\ payload.status_code = 401

-----------------------------------------------------------------------------
(* Day blocks with lines that begin with "Day" without being a header.     *)

MaxDayLines == 2

DayLines ==
    { <<"Breakfast", ":", " ", "Cafe">>,
      <<"Evening Activity", ":", " ", "Show", " ", "@", " ", "Hall">>,
      <<"Day", " ", "trip", " ", "to", " ", "Sintra">>,
      <<"Daytime", " ", "stroll">>,
      \* a meal whose rating makes float() raise
      <<"Dinner", ":", " ", "Cafe", " ", "(", "1", ".", "2", ".", "3", ")">> }

\* the daily section: "Day 1 - 2024-06-01:", the lines, and with `second` the
\* block of a second day
DayLineSection(lines, second) ==
    <<"DAILY ITINERARY", ":">> \o NL \o Header(<<"1">>, Date1) \o JoinLines(lines)
      \o (IF second
          THEN NL \o Header(<<"2">>, Date2) \o NL \o <<"Dinner", ":", " ", "Grill">>
          ELSE <<>>)

\* the response: the daily section alone, or with `framed` after a line of
\* introduction and between the two other sections
DayLineResponse(lines, second, framed) ==
    IF framed
    THEN <<"Your", " ", "plan">> \o NL
           \o Assemble(<<"ACCOMMODATION", ":">> \o NL \o <<"1", ".", " ", "Hotel">>,
                       DayLineSection(lines, second),
                       <<"TRAVEL TIPS", ":">> \o NL \o <<"note">>)
    ELSE DayLineSection(lines, second)

DayLineResponses ==
    {DayLineResponse(lines, second, framed) :
       lines \in UNION {[1..n -> DayLines] : n \in 0..MaxDayLines},
       second \in BOOLEAN, framed \in BOOLEAN}

InitDays ==
    /\ response_text \in DayLineResponses
    /\ pc = "start"
    /\ sections = <<>>
    /\ parsed_data = initial_parsed_data
    /\ result = NoResult
    /\ line_text = <<>>
    /\ line_out = NoOut
    /\ PromptUnused
    /\ ApiUnused

SpecDays == InitDays /\ [][Next]_vars

\* the text from the recognized header at p up to the next recognized header
\* of the section s, or to the end of s
DayRegion(s, p) ==
    LET P == FirstHeaders(s)
        next == Min({q \in P : q > p} \cup {Len(s) + 1})
    IN  SubSeq(s, p, next - 1)

\* C30: in text mode every labeled meal or activity line between a
\* recognized day header and the next recognized day header (or the end of
\* the section) is in the entry of that day, also when a line in between
\* begins with "Day " without being a header ("Day trip to Sintra"); the
\* calls that return the parsed data, not the record of the except clause,
\* are the ones looked at
C30_LinesBelongToTheirDay ==
    (pc = "done" /\ result # except_result) =>
        LET s == daily_section(response_text)
            P == FirstHeaders(s)
        IN  \A p \in P :
              LET region == DayRegion(s, p)
                  k == Rank(P, p)
              IN  /\ k <= Len(ReturnedSchedule)
                  /\ \A section \in MealSections \cup ActivitySections :
                        section_content(region, section) # None
                          => ReturnedSchedule[k][section] = slot_of(region, section).val

====
